---- MODULE Spec2Model ----
(***************************************************************************)
(* The general-notes hierarchy engine of backend/Scripts/general_notes_v3  *)
(* as a state machine: the page / block / line loop, the three parallel    *)
(* stacks, the text buffer, the node flusher and the table it inserts to.  *)
(*                                                                         *)
(* Text is modelled character by character: a string is a sequence of      *)
(* one-character strings (the tokens "ZWSP", "ENDASH", "EMDASH" and "TAB"  *)
(* stand for U+200B, U+2013, U+2014 and U+0009).  None is the empty        *)
(* sequence for optional strings and 0 for optional ids and pages.         *)
(***************************************************************************)
EXTENDS Integers, Sequences, FiniteSets, TLC

\* ------------------------------------------------------------------------
\* Characters and the string primitives of Python the script relies on
\* ------------------------------------------------------------------------
LOWER == <<"a", "b", "c", "d", "e", "f", "g", "h", "i", "j", "k", "l", "m", "n", "o", "p", "q", "r", "s", "t", "u", "v", "w", "x", "y", "z">>

UPPER == <<"A", "B", "C", "D", "E", "F", "G", "H", "I", "J", "K", "L", "M", "N", "O", "P", "Q", "R", "S", "T", "U", "V", "W", "X", "Y", "Z">>

DIGITS == {"0", "1", "2", "3", "4", "5", "6", "7", "8", "9"}

WHITESPACE == {" ", "TAB"}

DASHES == {"ENDASH", "EMDASH", "-"}

ZWSP == "ZWSP"

None == 0

LOWER_SET == {LOWER[i] : i \in 1..26}

UPPER_SET == {UPPER[i] : i \in 1..26}

\* position of a letter in the alphabet, either case
LETTER_INDEX ==
    [c \in LOWER_SET \cup UPPER_SET |-> CHOOSE i \in 1..26 : LOWER[i] = c \/ UPPER[i] = c]

IsLower(c) == c \in LOWER_SET

IsUpper(c) == c \in UPPER_SET

IsWordChar(c) == IsLower(c) \/ IsUpper(c) \/ c \in DIGITS \/ c = "_"

\* ord(c) for a lowercase ASCII letter
ord(c) == 96 + LETTER_INDEX[c]

lower_char(c) == IF IsUpper(c) THEN LOWER[LETTER_INDEX[c]] ELSE c

upper_char(c) == IF IsLower(c) THEN UPPER[LETTER_INDEX[c]] ELSE c

\* str.lower()
lower(s) == [i \in 1..Len(s) |-> lower_char(s[i])]

\* str.upper()
upper(s) == [i \in 1..Len(s) |-> upper_char(s[i])]

\* number of leading characters of s that belong to set cs
RECURSIVE span(_, _)
span(s, cs) ==
    IF s = <<>> \/ s[1] \notin cs THEN 0 ELSE 1 + span(Tail(s), cs)

\* number of trailing characters of s that belong to set cs
RECURSIVE rspan(_, _)
rspan(s, cs) ==
    IF s = <<>> \/ s[Len(s)] \notin cs THEN 0 ELSE 1 + rspan(SubSeq(s, 1, Len(s) - 1), cs)

\* str.strip()
strip(s) ==
    LET a == span(s, WHITESPACE)
    IN  IF a = Len(s) THEN <<>> ELSE SubSeq(s, a + 1, Len(s) - rspan(s, WHITESPACE))

\* str.rstrip(".")
rstrip_dot(s) == SubSeq(s, 1, Len(s) - rspan(s, {"."}))

\* str.startswith(prefix)
startswith(s, prefix) ==
    /\ Len(prefix) <= Len(s)
    /\ SubSeq(s, 1, Len(prefix)) = prefix

\* the `in` operator on strings
contains(s, sub) ==
    \E i \in 1..(Len(s) - Len(sub) + 1) :
        s[i] = sub[1] /\ SubSeq(s, i, i + Len(sub) - 1) = sub

\* the part of s from 0-based offset k on: s[k:]
from_offset(s, k) == SubSeq(s, k + 1, Len(s))

\* "-".join(parts)
RECURSIVE join_dash(_)
join_dash(parts) ==
    IF parts = <<>> THEN <<>>
    ELSE IF Len(parts) = 1 THEN parts[1]
    ELSE parts[1] \o <<"-">> \o join_dash(Tail(parts))

\* ------------------------------------------------------------------------
\* Configuration
\* ------------------------------------------------------------------------
START_PAGE == 20

SKIP_RANGES == << <<77, 188>>, <<214, 296>>, <<304, 381>>, <<412, 475>>, <<488, 568>>, <<618, 679>>, <<839, 898>> >>

START_SKIP_LINE == <<"C", "h", "a", "n", "g", "e", " ", "i", "n", " ", "t", "a", "r", "i", "f", "f", " ", "c", "l", "a", "s", "s", "i", "f", "i", "c", "a", "t", "i", "o", "n", " ", "r", "u", "l", "e", "s">>

START_SKIP_LINE1 == <<"P", "r", "o", "d", "u", "c", "t", "-", "s", "p", "e", "c", "i", "f", "i", "c", " ", "r", "u", "l", "e", "s">>

SECTION_TERMINATOR == <<"G", "E", "N", "E", "R", "A", "L", " ", "S", "T", "A", "T", "I", "S", "T", "I", "C", "A", "L", " ", "N", "O", "T", "E", "S">>

RUNNING_HEADER == <<"H", "a", "r", "m", "o", "n", "i", "z", "e", "d", " ", "T", "a", "r", "i", "f", "f", " ", "S", "c", "h", "e", "d", "u", "l", "e", " ", "o", "f", " ", "t", "h", "e", " ", "U", "n", "i", "t", "e", "d", " ", "S", "t", "a", "t", "e", "s">>

EDITORIAL_DELETED == <<"s", "u", "b", "d", "i", "v", "i", "s", "i", "o", "n", " ", "d", "e", "l", "e", "t", "e", "d">>

EDITORIAL_TRANSFERRED == <<"w", "e", "r", "e", " ", "t", "r", "a", "n", "s", "f", "e", "r", "r", "e", "d", " ", "a", "n", "d", " ", "d", "e", "s", "i", "g", "n", "a", "t", "e", "d", " ", "a", "s", " ", "s", "u", "b", "d", "i", "v", "i", "s", "i", "o", "n", "s">>

MAX_CHUNK_SIZE == 5000

\* page_role with the strictly-inside case left out
page_role_ends_only(page_num) ==
    IF \E k \in 1..Len(SKIP_RANGES) : SKIP_RANGES[k][1] = page_num THEN "START"
    ELSE IF \E k \in 1..Len(SKIP_RANGES) : SKIP_RANGES[k][2] = page_num THEN "END"
    ELSE "None"

\* page_role(page_num): the first range that claims the page decides
RECURSIVE page_role_from(_, _)

page_role_from(page_num, k) ==
    IF k > Len(SKIP_RANGES) THEN "None"
    ELSE LET start == SKIP_RANGES[k][1]
             end   == SKIP_RANGES[k][2]
         IN  IF page_num = start THEN "START"
             ELSE IF page_num = end THEN "END"
             ELSE IF start < page_num /\ page_num < end THEN "MIDDLE"
             ELSE page_role_from(page_num, k + 1)

page_role(page_num) == page_role_from(page_num, 1)

\* is_resume_marker(line): ^Chapter\s+(98|99)\b, case-insensitive
is_resume_marker(line) ==
    /\ startswith(lower(line), <<"c", "h", "a", "p", "t", "e", "r">>)
    /\ LET rest == from_offset(line, 7)
           ws   == span(rest, WHITESPACE)
           num  == from_offset(rest, ws)
       IN  /\ ws >= 1
           /\ Len(num) >= 2
           /\ SubSeq(num, 1, 2) \in {<<"9", "8">>, <<"9", "9">>}
           /\ (Len(num) = 2 \/ ~IsWordChar(num[3]))

\* normalize_gn_number(s)
normalize_gn_number(s) == strip(rstrip_dot(s))

\* ------------------------------------------------------------------------
\* Line helpers
\* ------------------------------------------------------------------------
\* re.sub(r'\s+', ' ', s): every run of whitespace becomes one space
collapse_whitespace(s) ==
    LET marked == [i \in 1..Len(s) |->
                     IF s[i] \in WHITESPACE
                     THEN <<" ", i > 1 /\ s[i - 1] \in WHITESPACE>>
                     ELSE <<s[i], FALSE>>]
        kept   == SelectSeq(marked, LAMBDA p : ~p[2])
    IN  [i \in 1..Len(kept) |-> kept[i][1]]

\* normalize_line replacing the dashes after the whitespace runs are collapsed
normalize_line_dash_last(s) ==
    LET no_zw     == SelectSeq(s, LAMBDA c : c # ZWSP)
        collapsed == collapse_whitespace(no_zw)
    IN  strip([i \in 1..Len(collapsed) |->
                 IF collapsed[i] \in DASHES THEN " " ELSE collapsed[i]])

normalize_line(s) ==
    LET no_zw  == SelectSeq(s, LAMBDA c : c # ZWSP)
        dashed == [i \in 1..Len(no_zw) |-> IF no_zw[i] \in DASHES THEN " " ELSE no_zw[i]]
    IN  strip(collapse_whitespace(dashed))

is_ignored_editorial_line(line) ==
    LET l == lower(line)
    IN  contains(l, EDITORIAL_DELETED) \/ contains(l, EDITORIAL_TRANSFERRED)

\* ------------------------------------------------------------------------
\* Succession validator
\* ------------------------------------------------------------------------
\* the numerals roman.fromRoman accepts over the letters I, V, X and L:
\* (XL|L?X{0,3}) followed by (IX|IV|V?I{0,3}), not both empty
ROMAN_TENS == { <<<<>>, 0>>, <<<<"X">>, 10>>, <<<<"X", "X">>, 20>>, <<<<"X", "X", "X">>, 30>>,
                <<<<"X", "L">>, 40>>, <<<<"L">>, 50>>, <<<<"L", "X">>, 60>>,
                <<<<"L", "X", "X">>, 70>>, <<<<"L", "X", "X", "X">>, 80>> }

ROMAN_ONES == { <<<<>>, 0>>, <<<<"I">>, 1>>, <<<<"I", "I">>, 2>>, <<<<"I", "I", "I">>, 3>>,
                <<<<"I", "V">>, 4>>, <<<<"V">>, 5>>, <<<<"V", "I">>, 6>>,
                <<<<"V", "I", "I">>, 7>>, <<<<"V", "I", "I", "I">>, 8>>, <<<<"I", "X">>, 9>> }

\* roman.fromRoman(s) for s over I, V, X, L; None where it raises
fromRoman(s) ==
    LET parses == {p \in ROMAN_TENS \X ROMAN_ONES : p[1][1] \o p[2][1] = s}
    IN  IF s = <<>> \/ parses = {} THEN None
        ELSE LET p == CHOOSE q \in parses : TRUE IN p[1][2] + p[2][2]

roman_value(s) == IF s = <<>> THEN None ELSE fromRoman(upper(s))

\* get_prev_sibling_marker: <<>> for None, <<marker>> otherwise
RECURSIVE prev_sibling_from(_, _, _, _)
prev_sibling_from(marker_stack, level_stack, candidate_level, i) ==
    IF i < 2 THEN <<>>
    ELSE IF i - 1 <= Len(level_stack) /\ level_stack[i - 1] = candidate_level
         THEN <<marker_stack[i]>>
         ELSE prev_sibling_from(marker_stack, level_stack, candidate_level, i - 1)

get_prev_sibling_marker(marker_stack, level_stack, candidate_level) ==
    prev_sibling_from(marker_stack, level_stack, candidate_level, Len(marker_stack))

\* is_immediate_successor that takes any symbol as the first of its level
is_immediate_successor_any_first(prev_marker, next_marker, level) ==
    IF prev_marker = <<>>
    THEN level = 1 \/ level = 2
    ELSE IF level = 1
         THEN ord(next_marker[1]) = ord(prev_marker[1][1]) + 1
         ELSE IF level = 2
              THEN LET pv == roman_value(prev_marker[1])
                       nv == roman_value(next_marker)
                   IN  IF pv = None \/ nv = None THEN FALSE ELSE nv = pv + 1
              ELSE FALSE

\* is_immediate_successor that takes any later symbol as the successor
is_immediate_successor_any_later(prev_marker, next_marker, level) ==
    IF prev_marker = <<>>
    THEN IF level = 1 THEN next_marker = <<"a">>
         ELSE IF level = 2 THEN next_marker = <<"i">>
         ELSE FALSE
    ELSE IF level = 1
         THEN ord(next_marker[1]) > ord(prev_marker[1][1])
         ELSE IF level = 2
              THEN LET pv == roman_value(prev_marker[1])
                       nv == roman_value(next_marker)
                   IN  IF pv = None \/ nv = None THEN FALSE ELSE nv > pv
              ELSE FALSE

\* is_immediate_successor(prev_marker, next_marker, level); prev_marker is
\* <<>> for None and <<marker>> otherwise
is_immediate_successor(prev_marker, next_marker, level) ==
    IF prev_marker = <<>>
    THEN IF level = 1 THEN next_marker = <<"a">>
         ELSE IF level = 2 THEN next_marker = <<"i">>
         ELSE FALSE
    ELSE IF level = 1
         THEN ord(next_marker[1]) = ord(prev_marker[1][1]) + 1
         ELSE IF level = 2
              THEN LET pv == roman_value(prev_marker[1])
                       nv == roman_value(next_marker)
                   IN  IF pv = None \/ nv = None THEN FALSE ELSE nv = pv + 1
              ELSE FALSE

\* find_accept_parent_index that always nests under the open node
find_accept_parent_index_deep(level_stack, candidate_level) == Len(level_stack)

\* every candidate attached to the root
find_accept_parent_index_root(level_stack, candidate_level) == 0

\* find_accept_parent_index of the generic engine: the rightmost entry whose
\* level is less than the candidate's, or the root when there is none
generic_find_accept_parent_index(level_stack, candidate_level) ==
    LET less == {i \in 1..Len(level_stack) : level_stack[i] < candidate_level}
    IN  IF less = {} THEN 0
        ELSE CHOOSE i \in less : \A j \in less : j <= i

\* find_accept_parent_index: 0-based index of the parent in the marker stack
find_accept_parent_index(level_stack, candidate_level) ==
    IF candidate_level = 1 THEN 0
    ELSE IF candidate_level = 2
         THEN LET ones == {i \in 1..Len(level_stack) : level_stack[i] = 1}
              IN  IF ones = {} THEN 0
                  ELSE CHOOSE i \in ones : \A j \in ones : j <= i
         ELSE 0

\* ------------------------------------------------------------------------
\* Marker recognizer
\* ------------------------------------------------------------------------
ROMAN_LETTERS == {"i", "v", "x", "l", "I", "V", "X", "L"}

\* LEVEL_PATTERN_TUPLES, tried in order: ^\(([ivxl]+)\)\s* ignoring case
\* (level 2), then ^\(([a-z])\)\s* (level 1).  level 0 stands for no match;
\* end is the 0-based offset at which the match ends.
match_level(line) ==
    LET n  == IF Len(line) >= 1 /\ line[1] = "(" THEN span(Tail(line), ROMAN_LETTERS) ELSE 0
    IN  IF n >= 1 /\ Len(line) >= n + 2 /\ line[n + 2] = ")"
        THEN [level |-> 2, marker |-> SubSeq(line, 2, n + 1),
              end |-> n + 2 + span(from_offset(line, n + 2), WHITESPACE)]
        ELSE IF Len(line) >= 3 /\ line[1] = "(" /\ IsLower(line[2]) /\ line[3] = ")"
             THEN [level |-> 1, marker |-> <<line[2]>>,
                   end |-> 3 + span(from_offset(line, 3), WHITESPACE)]
             ELSE [level |-> 0, marker |-> <<>>, end |-> 0]

\* ------------------------------------------------------------------------
\* State
\* ------------------------------------------------------------------------
VARIABLES
    gn_resp,               \* rows of the general_note table read at startup
    doc,                   \* the pages that carry text: [num, blocks], blocks of raw lines
    chunk_size,            \* the chunk threshold in force (MAX_CHUNK_SIZE in a run)
    pc,                    \* "page", "block", "line", "done", "failed" or "call"
    pi, bi, li,            \* pages entered, blocks of the page taken, lines of the block done
    page_num, role,
    resume_found, skip_rest_of_page,
    current_level_stack, current_marker_stack, current_id_stack,
    buffer, current_page, prev_line, in_general_notes,
    db,                    \* hts_entries rows inserted by this run, in insert order
    nread,                 \* number of raw lines handed to normalize_line so far
    terminated,            \* the section terminator line has been processed
    event,                 \* the branch taken by the last step
    args, result           \* arguments and result of a helper called on its own

gn_vars == <<gn_resp, doc, chunk_size, pc, pi, bi, li, page_num, role, resume_found,
             skip_rest_of_page, current_level_stack, current_marker_stack,
             current_id_stack, buffer, current_page, prev_line, in_general_notes,
             db, nread, terminated, event, args, result>>

\* gri.py: the general rules of interpretation script
VARIABLES
    gri_doc,               \* the pages of the document: the lines of page.get_text()
    gri_pc,                \* "off", "page", "line", "done", "exit" or "failed"
    gri_pi, gri_li,        \* pages entered, lines of the page done
    gri_page_num,
    in_gri, current_rule,
    gri_buffer,            \* buffer
    gri_db                 \* hts_entries rows inserted by the script, in insert order

gri_vars == <<gri_doc, gri_pc, gri_pi, gri_li, gri_page_num, in_gri, current_rule,
              gri_buffer, gri_db>>

\* bulk_orchestrator.py: one bulk run and the threads that touch it
VARIABLES
    run,                   \* BULK_RUNS[run_id]: status, progress_current, results_summary, items
    workers,               \* per item: position of its _process_item call and its locals
    proc,                  \* process_bulk_run: position, loop index
    clarify,               \* the clarify_item call in hand: position, item, outcome, local
    cancel                 \* the cancel_bulk_run call: position

bulk_vars == <<run, workers, proc, clarify, cancel>>

vars == <<gn_vars, gri_vars, bulk_vars>>

\* the general notes script is not running
GnIdle ==
    /\ gn_resp = <<>> /\ doc = <<>> /\ chunk_size = 0 /\ pc = "off"
    /\ pi = 0 /\ bi = 0 /\ li = 0 /\ page_num = 0 /\ role = "None"
    /\ resume_found = FALSE /\ skip_rest_of_page = FALSE
    /\ current_level_stack = <<>> /\ current_marker_stack = <<>>
    /\ current_id_stack = <<>> /\ buffer = <<>> /\ current_page = None
    /\ prev_line = <<>> /\ in_general_notes = FALSE /\ db = <<>> /\ nread = 0
    /\ terminated = FALSE /\ event = "off" /\ args = <<>> /\ result = <<>>

\* the rules script is not running
GriIdle ==
    /\ gri_doc = <<>> /\ gri_pc = "off" /\ gri_pi = 0 /\ gri_li = 0
    /\ gri_page_num = 0 /\ in_gri = FALSE /\ current_rule = <<>>
    /\ gri_buffer = <<>> /\ gri_db = <<>>

\* no bulk run exists
BulkIdle ==
    /\ run = <<>> /\ workers = <<>> /\ proc = <<>> /\ clarify = <<>> /\ cancel = <<>>

\* ------------------------------------------------------------------------
\* Root-heading lookup
\* ------------------------------------------------------------------------
\* keys of general_notes_headers
header_keys == {normalize_gn_number(gn_resp[i].general_note_number) : i \in 1..Len(gn_resp)}

\* general_notes_headers[key]: in the dict comprehension the last item wins
general_notes_headers(key) ==
    LET hits == {i \in 1..Len(gn_resp) : normalize_gn_number(gn_resp[i].general_note_number) = key}
    IN  strip(gn_resp[CHOOSE i \in hits : \A j \in hits : j <= i].name)

\* the head of ^(\d+)\.?\s+(.*)$ : [ok, num, rest]
match_numbered(normalized_line) ==
    LET nd   == span(normalized_line, DIGITS)
        dot  == IF Len(normalized_line) > nd /\ normalized_line[nd + 1] = "." THEN 1 ELSE 0
        nws  == span(from_offset(normalized_line, nd + dot), WHITESPACE)
    IN  [ok   |-> nd >= 1 /\ nws >= 1,
         num  |-> SubSeq(normalized_line, 1, nd),
         rest |-> from_offset(normalized_line, nd + dot + nws)]

\* matched_gn for a line: <<>> for None, <<note number>> otherwise
matched_gn(prev, normalized_line) ==
    LET prev_norm == IF prev = <<>> THEN <<>> ELSE <<normalize_gn_number(prev[1])>>
    IN  IF prev_norm # <<>> /\ prev_norm[1] \in header_keys
        THEN LET gn_title == lower(normalize_line(general_notes_headers(prev_norm[1])))
             IN  IF startswith(lower(normalized_line), gn_title) THEN prev_norm ELSE <<>>
        ELSE LET m == match_numbered(normalized_line)
                 gn_num == normalize_gn_number(m.num)
             IN  IF m.ok /\ gn_num \in header_keys
                    /\ startswith(lower(m.rest), lower(normalize_line(general_notes_headers(gn_num))))
                 THEN <<gn_num>>
                 ELSE <<>>

\* ------------------------------------------------------------------------
\* Node flusher
\* ------------------------------------------------------------------------
text_to_insert == strip(buffer)

flush_is_noop == current_marker_stack = <<>> \/ text_to_insert = <<>>

\* number of passes of the chunk loop, the first chunk included
chunk_count == (Len(text_to_insert) + chunk_size - 1) \div chunk_size

\* parent id read from the top slot of the id stack, the node's own
flush_parent_id_own_slot ==
    IF current_id_stack # <<>> THEN current_id_stack[Len(current_id_stack)] ELSE None

flush_parent_id ==
    IF Len(current_id_stack) >= 2 THEN current_id_stack[Len(current_id_stack) - 1] ELSE None

\* the id the table assigns to the next inserted row
assigned_id(k) == Len(db) + k

\* text of the k-th payload: text_to_insert[start:start + size].strip()
chunk_text(k) ==
    LET first == (k - 1) * chunk_size + 1
        last  == IF k * chunk_size < Len(text_to_insert) THEN k * chunk_size
                 ELSE Len(text_to_insert)
    IN  strip(SubSeq(text_to_insert, first, last))

\* every chunk carrying the node's parent id
chunk_parent_id_flat(k) == flush_parent_id

chunk_parent_id(k) == IF k = 1 THEN flush_parent_id ELSE assigned_id(1)

\* the first n payloads of one flush, as stored
flush_rows(n) ==
    [k \in 1..n |->
        [id        |-> assigned_id(k),
         page      |-> current_page,
         ref_id    |-> current_marker_stack[Len(current_marker_stack)],
         parent_id |-> chunk_parent_id(k),
         subtype   |-> current_marker_stack[1],
         marker    |-> join_dash(current_marker_stack),
         text      |-> chunk_text(k)]]

\* the insert that raises: 0 for none, k for the k-th insert of this flush
fail_points == IF flush_is_noop THEN {0} ELSE 0..chunk_count

\* flush_current_node writing back the id the table hands out next
flush_current_node_next_id(fail) ==
    IF flush_is_noop
    THEN [db |-> db, ids |-> current_id_stack, raised |-> FALSE]
    ELSE IF fail = 0
         THEN [db     |-> db \o flush_rows(chunk_count),
               ids    |-> IF current_id_stack = <<>> THEN current_id_stack
                          ELSE [current_id_stack EXCEPT
                                   ![Len(current_id_stack)] = assigned_id(chunk_count + 1)],
               raised |-> FALSE]
         ELSE [db     |-> db \o flush_rows(fail - 1),
               ids    |-> current_id_stack,
               raised |-> TRUE]

\* flush_current_node writing main_id back before a later insert raises
flush_current_node_writes_on_raise(fail) ==
    IF flush_is_noop
    THEN [db |-> db, ids |-> current_id_stack, raised |-> FALSE]
    ELSE IF fail = 0
         THEN [db     |-> db \o flush_rows(chunk_count),
               ids    |-> IF current_id_stack = <<>> THEN current_id_stack
                          ELSE [current_id_stack EXCEPT ![Len(current_id_stack)] = assigned_id(1)],
               raised |-> FALSE]
         ELSE [db     |-> db \o flush_rows(fail - 1),
               ids    |-> IF fail = 1 \/ current_id_stack = <<>> THEN current_id_stack
                          ELSE [current_id_stack EXCEPT ![Len(current_id_stack)] = assigned_id(1)],
               raised |-> TRUE]

\* flush_current_node writing main_id = None back when there is nothing to store
flush_current_node_noop_clears_slot(fail) ==
    IF flush_is_noop
    THEN [db     |-> db,
          ids    |-> IF current_id_stack = <<>> THEN current_id_stack
                     ELSE [current_id_stack EXCEPT ![Len(current_id_stack)] = None],
          raised |-> FALSE]
    ELSE IF fail = 0
         THEN [db     |-> db \o flush_rows(chunk_count),
               ids    |-> IF current_id_stack = <<>> THEN current_id_stack
                          ELSE [current_id_stack EXCEPT ![Len(current_id_stack)] = assigned_id(1)],
               raised |-> FALSE]
         ELSE [db     |-> db \o flush_rows(fail - 1),
               ids    |-> current_id_stack,
               raised |-> TRUE]

\* flush_current_node(): the table, the id stack and whether it raised
flush_current_node(fail) ==
    IF flush_is_noop
    THEN [db |-> db, ids |-> current_id_stack, raised |-> FALSE]
    ELSE IF fail = 0
         THEN [db     |-> db \o flush_rows(chunk_count),
               ids    |-> IF current_id_stack = <<>> THEN current_id_stack
                          ELSE [current_id_stack EXCEPT ![Len(current_id_stack)] = assigned_id(1)],
               raised |-> FALSE]
         ELSE [db     |-> db \o flush_rows(fail - 1),
               ids    |-> current_id_stack,
               raised |-> TRUE]

\* ------------------------------------------------------------------------
\* The page / block / line loop
\* ------------------------------------------------------------------------
cur_blocks == doc[pi].blocks

cur_block == doc[pi].blocks[bi]

raw_line == cur_block[li + 1]

line == normalize_line(raw_line)

\* position after the block in hand is finished or left
BlockDone ==
    /\ pc' = IF bi < Len(cur_blocks) THEN "block" ELSE "page"
    /\ li' = 0
    /\ UNCHANGED <<pi, bi>>

\* position after the line in hand is finished
LineDone ==
    IF li + 1 < Len(cur_block)
    THEN pc' = "line" /\ li' = li + 1 /\ UNCHANGED <<pi, bi>>
    ELSE BlockDone

\* an insert raised inside the handler of the line in hand: the run dies there
Abort(f, resumed) ==
    /\ pc' = "failed"
    /\ db' = f.db
    /\ resume_found' = resumed
    /\ nread' = nread + 1
    /\ event' = "failed"
    /\ UNCHANGED <<gri_vars, bulk_vars, gn_resp, doc, chunk_size, terminated, args, result, pi, bi, li, page_num, role, skip_rest_of_page,
                   current_level_stack, current_marker_stack, current_id_stack,
                   buffer, current_page, prev_line, in_general_notes>>

\* for i in range(START_PAGE, doc.page_count): a page outside the MIDDLE of a range
EnterPage ==
    /\ pc = "page"
    /\ pi < Len(doc)
    /\ page_role(doc[pi + 1].num) # "MIDDLE"
    /\ pi' = pi + 1
    /\ page_num' = doc[pi + 1].num
    /\ role' = page_role(doc[pi + 1].num)
    /\ skip_rest_of_page' = FALSE
    /\ bi' = 0
    /\ li' = 0
    /\ pc' = IF doc[pi + 1].blocks = <<>> THEN "page" ELSE "block"
    /\ event' = "enter_page"
    /\ UNCHANGED <<gri_vars, bulk_vars, gn_resp, doc, chunk_size, terminated, args, result, resume_found, current_level_stack,
                   current_marker_stack, current_id_stack, buffer, current_page,
                   prev_line, in_general_notes, db, nread>>

\* a MIDDLE page: continue before its text is fetched
SkipMiddlePage ==
    /\ pc = "page"
    /\ pi < Len(doc)
    /\ page_role(doc[pi + 1].num) = "MIDDLE"
    /\ pi' = pi + 1
    /\ page_num' = doc[pi + 1].num
    /\ role' = "MIDDLE"
    /\ skip_rest_of_page' = FALSE
    /\ event' = "skip_middle"
    /\ UNCHANGED <<gri_vars, bulk_vars, gn_resp, doc, chunk_size, terminated, args, result, pc, bi, li, resume_found, current_level_stack,
                   current_marker_stack, current_id_stack, buffer, current_page,
                   prev_line, in_general_notes, db, nread>>

\* the end of the page loop without the closing flush
EndOfDocument_no_flush ==
    /\ pc = "page"
    /\ pi = Len(doc)
    /\ pc' = "done"
    /\ event' = "end_doc"
    /\ UNCHANGED <<gri_vars, bulk_vars, gn_resp, doc, chunk_size, terminated, args, result, pi, bi, li, page_num, role,
                   resume_found, skip_rest_of_page, current_level_stack,
                   current_marker_stack, current_id_stack, buffer, current_page,
                   prev_line, in_general_notes, db, nread>>

\* after the page loop: if current_marker_stack: flush_current_node()
EndOfDocument ==
    /\ pc = "page"
    /\ pi = Len(doc)
    /\ \E fail \in fail_points :
          LET f == flush_current_node(fail)
          IN  /\ db' = f.db
              /\ current_id_stack' = f.ids
              /\ pc' = IF f.raised THEN "failed" ELSE "done"
              /\ event' = IF f.raised THEN "failed" ELSE "end_doc"
    /\ UNCHANGED <<gri_vars, bulk_vars, gn_resp, doc, chunk_size, terminated, args, result, pi, bi, li, page_num, role, resume_found,
                   skip_rest_of_page, current_level_stack, current_marker_stack,
                   buffer, current_page, prev_line, in_general_notes, nread>>

\* a block reached after the START trigger fired on this page
SkipBlock ==
    /\ pc = "block"
    /\ skip_rest_of_page
    /\ bi' = bi + 1
    /\ pc' = IF bi + 1 < Len(cur_blocks) THEN "block" ELSE "page"
    /\ event' = "skip_block"
    /\ UNCHANGED <<gri_vars, bulk_vars, gn_resp, doc, chunk_size, terminated, args, result, pi, li, page_num, role, resume_found,
                   skip_rest_of_page, current_level_stack, current_marker_stack,
                   current_id_stack, buffer, current_page, prev_line,
                   in_general_notes, db, nread>>

\* a block without text, or one that starts with the running header
PassBlock ==
    /\ pc = "block"
    /\ ~skip_rest_of_page
    /\ IF cur_blocks[bi + 1] = <<>> THEN TRUE
       ELSE startswith(cur_blocks[bi + 1][1], RUNNING_HEADER)
    /\ prev_line' = <<>>
    /\ bi' = bi + 1
    /\ pc' = IF bi + 1 < Len(cur_blocks) THEN "block" ELSE "page"
    /\ event' = IF cur_blocks[bi + 1] = <<>> THEN "empty_block" ELSE "header_block"
    /\ UNCHANGED <<gri_vars, bulk_vars, gn_resp, doc, chunk_size, terminated, args, result, pi, li, page_num, role, resume_found,
                   skip_rest_of_page, current_level_stack, current_marker_stack,
                   current_id_stack, buffer, current_page, in_general_notes, db, nread>>

\* a block whose lines are read
EnterBlock ==
    /\ pc = "block"
    /\ ~skip_rest_of_page
    /\ cur_blocks[bi + 1] # <<>>
    /\ ~startswith(cur_blocks[bi + 1][1], RUNNING_HEADER)
    /\ prev_line' = <<>>
    /\ bi' = bi + 1
    /\ li' = 0
    /\ pc' = "line"
    /\ event' = "enter_block"
    /\ UNCHANGED <<gri_vars, bulk_vars, gn_resp, doc, chunk_size, terminated, args, result, pi, page_num, role, resume_found,
                   skip_rest_of_page, current_level_stack, current_marker_stack,
                   current_id_stack, buffer, current_page, in_general_notes, db, nread>>

\* ------------------------------------------------------------------------
\* One line of a block
\* ------------------------------------------------------------------------
is_terminator == upper(line) = SECTION_TERMINATOR

is_start_trigger == role = "START" /\ (line = START_SKIP_LINE \/ line = START_SKIP_LINE1)

is_end_skipped == role = "END" /\ ~resume_found /\ ~is_resume_marker(line)

\* the line gets past the terminator, blank, START and END checks
Proceeds ==
    /\ pc = "line"
    /\ ~is_terminator
    /\ line # <<>>
    /\ ~is_start_trigger
    /\ ~is_end_skipped

\* resume_found once the END check has been passed
resume_after == resume_found \/ (role = "END" /\ is_resume_marker(line))

normalized_line == normalize_line(line)

candidate == match_level(line)

prev_marker_at_same_level ==
    get_prev_sibling_marker(current_marker_stack, current_level_stack, candidate.level)

\* the terminator clearing the stacks and the buffer without the flush
Terminator_reset_only ==
    /\ pc = "line"
    /\ is_terminator
    /\ in_general_notes' = FALSE
    /\ current_marker_stack' = <<>>
    /\ current_level_stack' = <<>>
    /\ current_id_stack' = <<>>
    /\ buffer' = <<>>
    /\ nread' = nread + 1
    /\ terminated' = TRUE
    /\ event' = "terminator"
    /\ LineDone
    /\ UNCHANGED <<gri_vars, bulk_vars, gn_resp, doc, chunk_size, args, result, page_num, role, resume_found,
                   skip_rest_of_page, current_page, prev_line, db>>

\* the terminator clearing the stacks but leaving in_general_notes set
Terminator_keeps_flag ==
    /\ pc = "line"
    /\ is_terminator
    /\ \E fail \in fail_points :
          LET f == flush_current_node(IF in_general_notes THEN fail ELSE 0)
          IN  IF in_general_notes /\ current_marker_stack # <<>> /\ f.raised
              THEN Abort(f, resume_found)
              ELSE /\ db' = IF in_general_notes /\ current_marker_stack # <<>> THEN f.db ELSE db
                   /\ in_general_notes' = in_general_notes
                   /\ current_marker_stack' = <<>>
                   /\ current_level_stack' = <<>>
                   /\ current_id_stack' = <<>>
                   /\ buffer' = <<>>
                   /\ nread' = nread + 1
                   /\ terminated' = TRUE
                   /\ event' = "terminator"
                   /\ LineDone
                   /\ UNCHANGED <<gri_vars, bulk_vars, gn_resp, doc, chunk_size, args, result, page_num, role, resume_found,
                                  skip_rest_of_page, current_page, prev_line>>

\* line.upper() == "GENERAL STATISTICAL NOTES": flush, reset, continue
Terminator ==
    /\ pc = "line"
    /\ is_terminator
    /\ \E fail \in fail_points :
          LET f == flush_current_node(IF in_general_notes THEN fail ELSE 0)
          IN  IF in_general_notes /\ current_marker_stack # <<>> /\ f.raised
              THEN Abort(f, resume_found)
              ELSE /\ db' = IF in_general_notes /\ current_marker_stack # <<>> THEN f.db ELSE db
                   /\ in_general_notes' = FALSE
                   /\ current_marker_stack' = <<>>
                   /\ current_level_stack' = <<>>
                   /\ current_id_stack' = <<>>
                   /\ buffer' = <<>>
                   /\ nread' = nread + 1
                   /\ terminated' = TRUE
                   /\ event' = "terminator"
                   /\ LineDone
                   /\ UNCHANGED <<gri_vars, bulk_vars, gn_resp, doc, chunk_size, args, result, page_num, role, resume_found,
                                  skip_rest_of_page, current_page, prev_line>>

\* if not line: prev_line = None; continue
BlankLine ==
    /\ pc = "line"
    /\ ~is_terminator
    /\ line = <<>>
    /\ prev_line' = <<>>
    /\ nread' = nread + 1
    /\ event' = "blank"
    /\ LineDone
    /\ UNCHANGED <<gri_vars, bulk_vars, gn_resp, doc, chunk_size, terminated, args, result, page_num, role, resume_found, skip_rest_of_page,
                   current_level_stack, current_marker_stack, current_id_stack,
                   buffer, current_page, in_general_notes, db>>

\* the trigger leaving only its own block, later blocks of the page still read
StartTrigger_block_only ==
    /\ pc = "line"
    /\ ~is_terminator
    /\ line # <<>>
    /\ is_start_trigger
    /\ \E fail \in fail_points :
          LET flushes == in_general_notes /\ current_marker_stack # <<>> /\ buffer # <<>>
              f == flush_current_node(IF flushes THEN fail ELSE 0)
          IN  IF flushes /\ f.raised
              THEN Abort(f, resume_found)
              ELSE /\ db' = IF flushes THEN f.db ELSE db
                   /\ current_id_stack' = IF flushes THEN f.ids ELSE current_id_stack
                   /\ buffer' = IF flushes THEN <<>> ELSE buffer
                   /\ skip_rest_of_page' = FALSE
                   /\ nread' = nread + 1
                   /\ event' = "start_trigger"
                   /\ BlockDone
                   /\ UNCHANGED <<gri_vars, bulk_vars, gn_resp, doc, chunk_size, terminated, args, result, page_num,
                                  role, resume_found, current_level_stack,
                                  current_marker_stack, current_page, prev_line,
                                  in_general_notes>>

\* START page: a trigger phrase flushes the open node and drops the rest of the page
StartTrigger ==
    /\ pc = "line"
    /\ ~is_terminator
    /\ line # <<>>
    /\ is_start_trigger
    /\ \E fail \in fail_points :
          LET flushes == in_general_notes /\ current_marker_stack # <<>> /\ buffer # <<>>
              f == flush_current_node(IF flushes THEN fail ELSE 0)
          IN  IF flushes /\ f.raised
              THEN Abort(f, resume_found)
              ELSE /\ db' = IF flushes THEN f.db ELSE db
                   /\ current_id_stack' = IF flushes THEN f.ids ELSE current_id_stack
                   /\ buffer' = IF flushes THEN <<>> ELSE buffer
                   /\ skip_rest_of_page' = TRUE
                   /\ nread' = nread + 1
                   /\ event' = "start_trigger"
                   /\ BlockDone
                   /\ UNCHANGED <<gri_vars, bulk_vars, gn_resp, doc, chunk_size, terminated, args, result, page_num, role, resume_found,
                                  current_level_stack, current_marker_stack,
                                  current_page, prev_line, in_general_notes>>

\* END page before the resume anchor: the line is dropped
EndSkipLine ==
    /\ pc = "line"
    /\ ~is_terminator
    /\ line # <<>>
    /\ ~is_start_trigger
    /\ is_end_skipped
    /\ nread' = nread + 1
    /\ event' = "end_skip"
    /\ LineDone
    /\ UNCHANGED <<gri_vars, bulk_vars, gn_resp, doc, chunk_size, terminated, args, result, page_num, role, resume_found, skip_rest_of_page,
                   current_level_stack, current_marker_stack, current_id_stack,
                   buffer, current_page, prev_line, in_general_notes, db>>

\* an editorial notice: remembered as prev_line, otherwise ignored
EditorialLine ==
    /\ Proceeds
    /\ is_ignored_editorial_line(line)
    /\ resume_found' = resume_after
    /\ prev_line' = <<line>>
    /\ nread' = nread + 1
    /\ event' = "editorial"
    /\ LineDone
    /\ UNCHANGED <<gri_vars, bulk_vars, gn_resp, doc, chunk_size, terminated, args, result, page_num, role, skip_rest_of_page,
                   current_level_stack, current_marker_stack, current_id_stack,
                   buffer, current_page, in_general_notes, db>>

\* the root transition resetting the stacks without flushing the open node
RootHeading_no_flush ==
    /\ Proceeds
    /\ ~is_ignored_editorial_line(line)
    /\ matched_gn(prev_line, normalized_line) # <<>>
    /\ current_marker_stack' = <<matched_gn(prev_line, normalized_line)[1]>>
    /\ current_level_stack' = <<>>
    /\ current_id_stack' = <<None>>
    /\ buffer' = line
    /\ current_page' = page_num
    /\ in_general_notes' = TRUE
    /\ prev_line' = <<line>>
    /\ resume_found' = resume_after
    /\ nread' = nread + 1
    /\ event' = "root"
    /\ LineDone
    /\ UNCHANGED <<gri_vars, bulk_vars, gn_resp, doc, chunk_size, terminated, args, result, page_num, role,
                   skip_rest_of_page, db>>

\* if matched_gn: flush the open node and open the note as the new root
RootHeading ==
    /\ Proceeds
    /\ ~is_ignored_editorial_line(line)
    /\ matched_gn(prev_line, normalized_line) # <<>>
    /\ \E fail \in fail_points :
          LET f == flush_current_node(fail)
          IN  IF f.raised
              THEN Abort(f, resume_after)
              ELSE /\ db' = f.db
                   /\ current_marker_stack' = <<matched_gn(prev_line, normalized_line)[1]>>
                   /\ current_level_stack' = <<>>
                   /\ current_id_stack' = <<None>>
                   /\ buffer' = line
                   /\ current_page' = page_num
                   /\ in_general_notes' = TRUE
                   /\ prev_line' = <<line>>
                   /\ resume_found' = resume_after
                   /\ nread' = nread + 1
                   /\ event' = "root"
                   /\ LineDone
                   /\ UNCHANGED <<gri_vars, bulk_vars, gn_resp, doc, chunk_size, terminated, args, result, page_num, role, skip_rest_of_page>>

\* the nested transition truncating and pushing without the flush
NestedTransition_no_flush ==
    /\ Proceeds
    /\ ~is_ignored_editorial_line(line)
    /\ matched_gn(prev_line, normalized_line) = <<>>
    /\ in_general_notes /\ current_marker_stack # <<>>
    /\ candidate.level # 0
    /\ is_immediate_successor(prev_marker_at_same_level, candidate.marker, candidate.level)
    /\ \E fail \in fail_points :
          LET f == flush_current_node(fail)
              parent_index == find_accept_parent_index(current_level_stack, candidate.level)
          IN  IF f.raised
              THEN Abort(f, resume_after)
              ELSE /\ db' = db
                   /\ current_marker_stack' =
                         Append(SubSeq(current_marker_stack, 1, parent_index + 1), candidate.marker)
                   /\ current_level_stack' =
                         Append(SubSeq(current_level_stack, 1, parent_index), candidate.level)
                   /\ current_id_stack' = Append(SubSeq(current_id_stack, 1, parent_index + 1), None)
                   /\ buffer' = IF candidate.end < Len(line)
                                THEN strip(from_offset(line, candidate.end)) ELSE <<>>
                   /\ current_page' = page_num
                   /\ prev_line' = <<line>>
                   /\ resume_found' = resume_after
                   /\ nread' = nread + 1
                   /\ event' = "nested"
                   /\ LineDone
                   /\ UNCHANGED <<gri_vars, bulk_vars, gn_resp, doc, chunk_size, terminated, args, result, page_num, role, skip_rest_of_page,
                                  in_general_notes>>

\* a nested marker that passes succession validation: flush, truncate, push
NestedTransition ==
    /\ Proceeds
    /\ ~is_ignored_editorial_line(line)
    /\ matched_gn(prev_line, normalized_line) = <<>>
    /\ in_general_notes /\ current_marker_stack # <<>>
    /\ candidate.level # 0
    /\ is_immediate_successor(prev_marker_at_same_level, candidate.marker, candidate.level)
    /\ \E fail \in fail_points :
          LET f == flush_current_node(fail)
              parent_index == find_accept_parent_index(current_level_stack, candidate.level)
          IN  IF f.raised
              THEN Abort(f, resume_after)
              ELSE /\ db' = f.db
                   /\ current_marker_stack' =
                         Append(SubSeq(current_marker_stack, 1, parent_index + 1), candidate.marker)
                   /\ current_level_stack' =
                         Append(SubSeq(current_level_stack, 1, parent_index), candidate.level)
                   /\ current_id_stack' = Append(SubSeq(f.ids, 1, parent_index + 1), None)
                   /\ buffer' = IF candidate.end < Len(line)
                                THEN strip(from_offset(line, candidate.end)) ELSE <<>>
                   /\ current_page' = page_num
                   /\ prev_line' = <<line>>
                   /\ resume_found' = resume_after
                   /\ nread' = nread + 1
                   /\ event' = "nested"
                   /\ LineDone
                   /\ UNCHANGED <<gri_vars, bulk_vars, gn_resp, doc, chunk_size, terminated, args, result, page_num, role, skip_rest_of_page,
                                  in_general_notes>>

\* the append joining the line to the buffer without the space
AppendLine_no_space ==
    /\ Proceeds
    /\ ~is_ignored_editorial_line(line)
    /\ matched_gn(prev_line, normalized_line) = <<>>
    /\ in_general_notes /\ current_marker_stack # <<>>
    /\ \/ candidate.level = 0
       \/ ~is_immediate_successor(prev_marker_at_same_level, candidate.marker, candidate.level)
    /\ buffer' = buffer \o line
    /\ current_page' = page_num
    /\ prev_line' = <<line>>
    /\ resume_found' = resume_after
    /\ nread' = nread + 1
    /\ event' = IF candidate.level = 0 THEN "append" ELSE "rejected"
    /\ LineDone
    /\ UNCHANGED <<gri_vars, bulk_vars, gn_resp, doc, chunk_size, terminated, args, result, page_num, role,
                   skip_rest_of_page, current_level_stack, current_marker_stack,
                   current_id_stack, in_general_notes, db>>

\* inside a note: a line without a marker, or with one that fails validation
AppendLine ==
    /\ Proceeds
    /\ ~is_ignored_editorial_line(line)
    /\ matched_gn(prev_line, normalized_line) = <<>>
    /\ in_general_notes /\ current_marker_stack # <<>>
    /\ \/ candidate.level = 0
       \/ ~is_immediate_successor(prev_marker_at_same_level, candidate.marker, candidate.level)
    /\ buffer' = buffer \o <<" ">> \o line
    /\ current_page' = page_num
    /\ prev_line' = <<line>>
    /\ resume_found' = resume_after
    /\ nread' = nread + 1
    /\ event' = IF candidate.level = 0 THEN "append" ELSE "rejected"
    /\ LineDone
    /\ UNCHANGED <<gri_vars, bulk_vars, gn_resp, doc, chunk_size, terminated, args, result, page_num, role, skip_rest_of_page,
                   current_level_stack, current_marker_stack, current_id_stack,
                   in_general_notes, db>>

\* outside any note: only prev_line moves
OutsideLine ==
    /\ Proceeds
    /\ ~is_ignored_editorial_line(line)
    /\ matched_gn(prev_line, normalized_line) = <<>>
    /\ ~(in_general_notes /\ current_marker_stack # <<>>)
    /\ prev_line' = <<line>>
    /\ resume_found' = resume_after
    /\ nread' = nread + 1
    /\ event' = "outside"
    /\ LineDone
    /\ UNCHANGED <<gri_vars, bulk_vars, gn_resp, doc, chunk_size, terminated, args, result, page_num, role, skip_rest_of_page,
                   current_level_stack, current_marker_stack, current_id_stack,
                   buffer, current_page, in_general_notes, db>>

\* ------------------------------------------------------------------------
\* Documents
\* ------------------------------------------------------------------------
MaxLines == 3

MaxPages == 2

MaxBlocks == 2

L_H4 == <<"4", ".", " ", "R", "a", "t", "e", "s", " ", "o", "f", " ", "D", "u", "t", "y">>

L_INTRO == <<"s", "o", "m", "e", " ", "i", "n", "t", "r", "o", " ", "t", "e", "x", "t">>

L_A == <<"(", "a", ")", " ", "f", "i", "r", "s", "t", " ", "c", "l", "a", "u", "s", "e", " ", "t", "e", "x", "t">>

L_B == <<"(", "b", ")", " ", "s", "e", "c", "o", "n", "d", " ", "c", "l", "a", "u", "s", "e", " ", "t", "e", "x", "t">>

L_I == <<"(", "i", ")", " ", "n", "e", "s", "t", "e", "d", " ", "u", "n", "d", "e", "r", " ", "b">>

L_C == <<"(", "c", ")", " ", "t", "h", "i", "r", "d", " ", "c", "l", "a", "u", "s", "e", " ", "t", "e", "x", "t">>

L_II == <<"(", "i", "i", ")", " ", "n", "e", "x", "t">>

L_A_BARE == <<"(", "a", ")">>

L_BLANK == <<" ">>

L_CH98 == <<"C", "h", "a", "p", "t", "e", "r", " ", "9", "8">>

L_EDITORIAL == <<"(", "b", ")", " ", "S", "u", "b", "d", "i", "v", "i", "s", "i", "o", "n", " ", "d", "e", "l", "e", "t", "e", "d">>

\* "(x) item" for the x-th letter of the alphabet
LetterLine(k) == <<"(", LOWER[k], ")", " ", "i", "t", "e", "m">>

RATES_OF_DUTY == <<"R", "a", "t", "e", "s", " ", "o", "f", " ", "D", "u", "t", "y">>

TARIFF_TREATMENT == <<"T", "a", "r", "i", "f", "f", " ", "T", "r", "e", "a", "t", "m", "e", "n", "t">>

\* the lookup {"4": "Rates of Duty"}
GN_ROWS_4 == << [general_note_number |-> <<"4">>, name |-> RATES_OF_DUTY] >>

\* a table that holds note 4 twice, under two names
GN_ROWS_4_TWICE ==
    << [general_note_number |-> <<"4">>, name |-> TARIFF_TREATMENT],
       [general_note_number |-> <<"4">>, name |-> RATES_OF_DUTY] >>

\* the rows the general_note table can hold
GN_RESPONSES == {GN_ROWS_4, GN_ROWS_4_TWICE}

\* a document of one page with one block
OnePage(num, lines) == << [num |-> num, blocks |-> <<lines>>] >>

\* the end-to-end scenario: one root, two letters, one roman, a third letter
SCENARIO_DOC == OnePage(21, <<L_H4, L_INTRO, L_A, L_B, L_I, L_C>>)

\* a note whose clauses run (a), (b), ... through the k-th letter
AlphabetDoc(k) == OnePage(21, <<L_H4>> \o [j \in 1..k |-> LetterLine(j)])

NEST_LINES == {L_H4, L_INTRO, L_A, L_B, L_C, L_I, L_II, L_A_BARE}

\* one ordinary page: up to MaxLines lines, at the start of the document or
\* after a note and its first clause have been opened
NestDocs ==
    {OnePage(21, pre \o ls) :
        pre \in {<<>>, <<L_H4, L_A>>}, ls \in UNION {[1..n -> NEST_LINES] : n \in 1..MaxLines}}

PAGE_NUMS == {21, 77, 100, 188, 250, 296}

PAGE_BLOCKS == { <<L_H4>>, <<L_INTRO>>, <<L_H4, START_SKIP_LINE, L_INTRO>>,
                 <<L_INTRO, L_CH98, L_H4>>, <<L_A, SECTION_TERMINATOR, L_H4>>,
                 <<L_H4, START_SKIP_LINE1, L_INTRO>> }

\* up to MaxPages pages with text, in page order, one block each
PageDocs ==
    {d \in UNION {[1..n -> [num : PAGE_NUMS, blocks : {<<b>> : b \in PAGE_BLOCKS}]] : n \in 1..MaxPages} :
        \A i \in 1..(Len(d) - 1) : d[i].num < d[i + 1].num}

BLOCKS == { <<>>, <<RUNNING_HEADER, L_H4>>, <<L_H4, L_BLANK, L_A>>, <<L_EDITORIAL, L_INTRO>>,
            <<L_H4, START_SKIP_LINE, L_INTRO>>, <<L_B>>, <<START_SKIP_LINE, L_H4>> }

\* one page, START or ordinary, with up to MaxBlocks blocks
BlockDocs ==
    { << [num |-> p, blocks |-> bs] >> :
        p \in {21, 77}, bs \in UNION {[1..n -> BLOCKS] : n \in 0..MaxBlocks} }

L_4 == <<"4">>

L_4_DOT == <<"4", ".">>

L_TITLE == RATES_OF_DUTY \o <<" ", "a", "p", "p", "l", "y">>

L_H4_NO_DOT == <<"4", " ", "r", "a", "t", "e", "s", " ", "o", "f", " ", "d", "u", "t", "y">>

\* a heading in one line or split over two, after a line that is or is not a
\* note number, with or without a clause after it
HeadingDocs ==
    {OnePage(21, <<p, h>> \o t) :
        p \in {L_4, L_4_DOT, L_INTRO, L_H4},
        h \in {L_H4, L_H4_NO_DOT, L_TITLE, L_INTRO},
        t \in {<<>>, <<L_A>>}}

\* words of nine letters, one space apart
LongLine(n) == [i \in 1..n |-> IF i % 10 = 3 /\ i < n THEN " " ELSE "x"]

\* a note whose text is just over twice the chunk threshold (three chunks),
\* with a space last in its first chunk
LONG_DOC == OnePage(21, <<L_H4, LongLine(2 * MAX_CHUNK_SIZE)>>)

DOCS ==
    {SCENARIO_DOC, AlphabetDoc(10), LONG_DOC} \cup NestDocs \cup PageDocs \cup BlockDocs
        \cup HeadingDocs

\* ------------------------------------------------------------------------
\* A run of the script
\* ------------------------------------------------------------------------
Init ==
    /\ gn_resp \in GN_RESPONSES
    /\ doc \in DOCS
    /\ chunk_size = MAX_CHUNK_SIZE
    /\ pc = "page"
    /\ pi = 0 /\ bi = 0 /\ li = 0
    /\ page_num = START_PAGE
    /\ role = "None"
    /\ resume_found = FALSE
    /\ skip_rest_of_page = FALSE
    /\ current_level_stack = <<>>
    /\ current_marker_stack = <<>>
    /\ current_id_stack = <<>>
    /\ buffer = <<>>
    /\ current_page = None
    /\ prev_line = <<>>
    /\ in_general_notes = FALSE
    /\ db = <<>>
    /\ nread = 0
    /\ terminated = FALSE
    /\ GriIdle
    /\ BulkIdle
    /\ event = "start"
    /\ args = <<>>
    /\ result = <<>>

Next ==
    \/ EnterPage
    \/ SkipMiddlePage
    \/ EndOfDocument
    \/ SkipBlock
    \/ PassBlock
    \/ EnterBlock
    \/ Terminator
    \/ BlankLine
    \/ StartTrigger
    \/ EndSkipLine
    \/ EditorialLine
    \/ RootHeading
    \/ NestedTransition
    \/ AppendLine
    \/ OutsideLine

Spec == Init /\ [][Next]_vars

\* ------------------------------------------------------------------------
\* Helpers called on their own
\* ------------------------------------------------------------------------
MaxRomanLen == 3

MaxText == 14

MaxScaledChunk == 4

ROMAN_TEST_CHARS == {"i", "v", "x", "I"}

\* candidate symbols the roman pattern can capture, up to MaxRomanLen letters
RomanStrings == UNION {[1..n -> ROMAN_TEST_CHARS] : n \in 1..MaxRomanLen}

LetterStrings == {<<c>> : c \in LOWER_SET}

SuccessorCalls ==
    [fn : {"is_immediate_successor"}, level : {1},
     prev : {<<>>} \cup {<<m>> : m \in LetterStrings}, next : LetterStrings]
    \cup
    [fn : {"is_immediate_successor"}, level : {2},
     prev : {<<>>} \cup {<<m>> : m \in RomanStrings}, next : RomanStrings]

MaxRawLen == 5

\* a zero-width space, two dash variants, two kinds of whitespace, a letter
RAW_CHARS == {ZWSP, "-", "EMDASH", " ", "TAB", "a"}

\* raw lines handed to normalize_line
NormalizeCalls ==
    [fn : {"normalize_line"}, s : UNION {[1..n -> RAW_CHARS] : n \in 0..MaxRawLen}]

\* buffered text: words of x separated by single spaces, possibly led by a space
BufferTexts ==
    {t \in UNION {[1..n -> {"x", " "}] : n \in 0..MaxText} :
        /\ \A i \in 1..(Len(t) - 1) : ~(t[i] = " " /\ t[i + 1] = " ")
        /\ (t # <<>> => t[Len(t)] # " ")}

\* the row of an ancestor flushed earlier in the run
AncestorRow(id, parent, path) ==
    [id |-> id, page |-> START_PAGE + 1, ref_id |-> path[Len(path)], parent_id |-> parent,
     subtype |-> path[1], marker |-> join_dash(path), text |-> <<"t">>]

\* text appended to a root heading: nothing, or lines joined by a space
AppendedTexts == {t \in BufferTexts : t = <<>> \/ t[1] = " "}

\* the state in which the flusher is entered: the open path, the ids of
\* the path, the rows already stored and the buffers that path can hold
OPEN_PATHS ==
    { [markers |-> <<<<"4">>>>, ids |-> <<None>>, rows |-> <<>>,
       buffers |-> {L_H4 \o t : t \in AppendedTexts}],
      [markers |-> <<<<"4">>, <<"a">>>>, ids |-> <<1, None>>,
       rows |-> <<AncestorRow(1, None, <<<<"4">>>>)>>,
       buffers |-> BufferTexts],
      [markers |-> <<<<"4">>, <<"b">>, <<"i">>>>, ids |-> <<1, 3, None>>,
       rows |-> <<AncestorRow(1, None, <<<<"4">>>>),
                  AncestorRow(2, 1, <<<<"4">>, <<"a">>>>),
                  AncestorRow(3, 1, <<<<"4">>, <<"b">>>>)>>,
       buffers |-> BufferTexts],
      [markers |-> <<<<"4">>, <<"a">>>>, ids |-> <<1, 2>>,
       rows |-> <<AncestorRow(1, None, <<<<"4">>>>),
                  AncestorRow(2, 1, <<<<"4">>, <<"a">>>>)>>,
       buffers |-> {<<>>}],
      [markers |-> <<>>, ids |-> <<>>, rows |-> <<>>, buffers |-> {<<>>}] }

InitCall ==
    /\ gn_resp = GN_ROWS_4
    /\ doc = <<>>
    /\ pc = "call"
    /\ pi = 0 /\ bi = 0 /\ li = 0
    /\ page_num = START_PAGE + 1
    /\ role = "None"
    /\ resume_found = FALSE
    /\ skip_rest_of_page = FALSE
    /\ prev_line = <<>>
    /\ nread = 0
    /\ terminated = FALSE
    /\ GriIdle
    /\ BulkIdle
    /\ event = "start"
    /\ result = <<>>
    /\ \/ /\ args \in SuccessorCalls \cup NormalizeCalls
          /\ chunk_size = MAX_CHUNK_SIZE
          /\ current_level_stack = <<>>
          /\ current_marker_stack = <<>>
          /\ current_id_stack = <<>>
          /\ buffer = <<>>
          /\ current_page = None
          /\ in_general_notes = FALSE
          /\ db = <<>>
       \/ /\ args = [fn |-> "flush_current_node"]
          /\ chunk_size \in 2..MaxScaledChunk
          /\ \E path \in OPEN_PATHS :
                /\ current_marker_stack = path.markers
                /\ current_level_stack = [i \in 1..(Len(path.markers) - 1) |-> i]
                /\ current_id_stack = path.ids
                /\ db = path.rows
                /\ in_general_notes = (path.markers # <<>>)
                /\ buffer \in path.buffers
          /\ current_page = START_PAGE + 1

\* is_immediate_successor(prev_marker, next_marker, level) on its own
CallSuccessor ==
    /\ pc = "call"
    /\ args.fn = "is_immediate_successor"
    /\ result' = <<is_immediate_successor(args.prev, args.next, args.level)>>
    /\ pc' = "returned"
    /\ event' = "successor"
    /\ UNCHANGED <<gri_vars, bulk_vars, gn_resp, doc, chunk_size, terminated, args, pi, bi, li, page_num, role, resume_found,
                   skip_rest_of_page, current_level_stack, current_marker_stack,
                   current_id_stack, buffer, current_page, prev_line, in_general_notes,
                   db, nread>>

\* normalize_line(s) on its own
CallNormalize ==
    /\ pc = "call"
    /\ args.fn = "normalize_line"
    /\ result' = <<normalize_line(args.s)>>
    /\ pc' = "returned"
    /\ event' = "normalize"
    /\ UNCHANGED <<gri_vars, bulk_vars, gn_resp, doc, chunk_size, terminated, args, pi, bi, li, page_num, role,
                   resume_found, skip_rest_of_page, current_level_stack,
                   current_marker_stack, current_id_stack, buffer, current_page,
                   prev_line, in_general_notes, db, nread>>

\* flush_current_node() on its own
CallFlush ==
    /\ pc = "call"
    /\ args.fn = "flush_current_node"
    /\ \E fail \in fail_points :
          LET f == flush_current_node(fail)
          IN  /\ db' = f.db
              /\ current_id_stack' = f.ids
              /\ pc' = IF f.raised THEN "failed" ELSE "returned"
              /\ result' = IF f.raised THEN <<>>
                           ELSE IF flush_is_noop THEN <<None>> ELSE <<assigned_id(1)>>
              /\ event' = IF f.raised THEN "failed" ELSE "flush"
    /\ UNCHANGED <<gri_vars, bulk_vars, gn_resp, doc, chunk_size, terminated, args, pi, bi, li, page_num, role, resume_found,
                   skip_rest_of_page, current_level_stack, current_marker_stack,
                   buffer, current_page, prev_line, in_general_notes, nread>>

NextCall == CallSuccessor \/ CallNormalize \/ CallFlush

SpecCall == InitCall /\ [][NextCall]_vars

\* ------------------------------------------------------------------------
\* gri.py: the general rules of interpretation
\* ------------------------------------------------------------------------
\* GRI_HEADER, searched case-insensitively
GRI_HEADER ==
    <<"G", "E", "N", "E", "R", "A", "L", " ", "R", "U", "L", "E", "S", " ", "O", "F", " ", "I",
      "N", "T", "E", "R", "P", "R", "E", "T", "A", "T", "I", "O", "N">>

\* STOP_HEADER, searched case-insensitively
STOP_HEADER ==
    <<"A", "D", "D", "I", "T", "I", "O", "N", "A", "L", " ", "U", ".", "S", ".", " ", "R", "U",
      "L", "E", "S", " ", "O", "F", " ", "I", "N", "T", "E", "R", "P", "R", "E", "T", "A", "T",
      "I", "O", "N">>

\* pattern.search(line) for a literal pattern under re.I
search_ignore_case(pattern, l) == contains(upper(l), pattern)

\* RULE.match(line), ^\(?(\d+)\)?[\.\-]?\s+(.*) : [ok, number, text]
RULE(l) ==
    LET open  == IF l # <<>> /\ l[1] = "(" THEN 1 ELSE 0
        nd    == span(from_offset(l, open), DIGITS)
        a     == open + nd
        close == IF Len(l) > a /\ l[a + 1] = ")" THEN 1 ELSE 0
        b     == a + close
        punct == IF Len(l) > b /\ l[b + 1] \in {".", "-"} THEN 1 ELSE 0
        c     == b + punct
        ws    == span(from_offset(l, c), WHITESPACE)
    IN  [ok     |-> nd >= 1 /\ ws >= 1,
         number |-> SubSeq(l, open + 1, a),
         text   |-> from_offset(l, c + ws)]

\* [l.strip() for l in page.get_text().split("\n") if l.strip()]
gri_lines(page) ==
    SelectSeq([k \in 1..Len(page) |-> strip(page[k])], LAMBDA l : l # <<>>)

gri_line == gri_lines(gri_doc[gri_pi])[gri_li + 1]

\* the payload of the two inserts
gri_row ==
    [page |-> gri_page_num, ref_id |-> current_rule, marker |-> current_rule,
     text |-> strip(gri_buffer)]

\* position after the line in hand
GriLineDone ==
    IF gri_li + 1 < Len(gri_lines(gri_doc[gri_pi]))
    THEN gri_pc' = "line" /\ gri_li' = gri_li + 1
    ELSE gri_pc' = "page" /\ gri_li' = 0

\* for i in range(START_PAGE, doc.page_count)
GriEnterPage ==
    /\ gri_pc = "page"
    /\ gri_pi < Len(gri_doc)
    /\ gri_pi' = gri_pi + 1
    /\ gri_page_num' = START_PAGE + gri_pi + 1
    /\ gri_li' = 0
    /\ gri_pc' = IF gri_lines(gri_doc[gri_pi + 1]) = <<>> THEN "page" ELSE "line"
    /\ UNCHANGED <<gn_vars, bulk_vars, gri_doc, in_gri, current_rule, gri_buffer, gri_db>>

\* the page loop runs out: the script ends
GriEndOfDocument ==
    /\ gri_pc = "page"
    /\ gri_pi = Len(gri_doc)
    /\ gri_pc' = "done"
    /\ UNCHANGED <<gn_vars, bulk_vars, gri_doc, gri_pi, gri_li, gri_page_num, in_gri,
                   current_rule, gri_buffer, gri_db>>

\* if not in_gri and GRI_HEADER.search(line): in_gri = True; continue
GriHeader ==
    /\ gri_pc = "line"
    /\ ~in_gri
    /\ search_ignore_case(GRI_HEADER, gri_line)
    /\ in_gri' = TRUE
    /\ GriLineDone
    /\ UNCHANGED <<gn_vars, bulk_vars, gri_doc, gri_pi, gri_page_num, current_rule,
                   gri_buffer, gri_db>>

\* if in_gri and STOP_HEADER.search(line): insert the buffer, exit(0)
GriStop ==
    /\ gri_pc = "line"
    /\ in_gri
    /\ search_ignore_case(STOP_HEADER, gri_line)
    /\ \E raised \in BOOLEAN :
          IF gri_buffer # <<>> /\ raised
          THEN gri_pc' = "failed" /\ gri_db' = gri_db
          ELSE /\ gri_pc' = "exit"
               /\ gri_db' = IF gri_buffer # <<>> THEN Append(gri_db, gri_row) ELSE gri_db
    /\ UNCHANGED <<gn_vars, bulk_vars, gri_doc, gri_pi, gri_li, gri_page_num, in_gri,
                   current_rule, gri_buffer>>

\* if not in_gri: continue
GriOutside ==
    /\ gri_pc = "line"
    /\ ~in_gri
    /\ ~search_ignore_case(GRI_HEADER, gri_line)
    /\ GriLineDone
    /\ UNCHANGED <<gn_vars, bulk_vars, gri_doc, gri_pi, gri_page_num, in_gri, current_rule,
                   gri_buffer, gri_db>>

\* a numbered rule: insert the buffered rule, start the new one
GriRule ==
    /\ gri_pc = "line"
    /\ in_gri
    /\ ~search_ignore_case(STOP_HEADER, gri_line)
    /\ RULE(gri_line).ok
    /\ \E raised \in BOOLEAN :
          IF gri_buffer # <<>> /\ raised
          THEN /\ gri_pc' = "failed"
               /\ UNCHANGED <<gri_db, gri_li, current_rule, gri_buffer>>
          ELSE /\ gri_db' = IF gri_buffer # <<>> THEN Append(gri_db, gri_row) ELSE gri_db
               /\ current_rule' = <<RULE(gri_line).number>>
               /\ gri_buffer' = RULE(gri_line).text
               /\ GriLineDone
    /\ UNCHANGED <<gn_vars, bulk_vars, gri_doc, gri_pi, gri_page_num, in_gri>>

\* else: buffer += " " + line
GriAppend ==
    /\ gri_pc = "line"
    /\ in_gri
    /\ ~search_ignore_case(STOP_HEADER, gri_line)
    /\ ~RULE(gri_line).ok
    /\ gri_buffer' = gri_buffer \o <<" ">> \o gri_line
    /\ GriLineDone
    /\ UNCHANGED <<gn_vars, bulk_vars, gri_doc, gri_pi, gri_page_num, in_gri, current_rule,
                   gri_db>>

MaxGriPages == 3

G_HEADER ==
    <<"G", "e", "n", "e", "r", "a", "l", " ", "R", "u", "l", "e", "s", " ", "o", "f", " ", "I",
      "n", "t", "e", "r", "p", "r", "e", "t", "a", "t", "i", "o", "n">>

G_RULE1 == <<"1", ".", " ", "T", "h", "e", " ", "t", "a", "b", "l", "e">>

G_RULE2 == <<"(", "2", ")", "TAB", "W", "h", "e", "n", " ", "g", "o", "o", "d", "s">>

G_TEXT == <<" ", "o", "f", " ", "c", "o", "n", "t", "e", "n", "t", "s", " ">>

G_BARE == <<"3", ".">>

G_STOP ==
    <<"A", "d", "d", "i", "t", "i", "o", "n", "a", "l", " ", "U", ".", "S", ".", " ", "R", "u",
      "l", "e", "s", " ", "o", "f", " ", "I", "n", "t", "e", "r", "p", "r", "e", "t", "a", "t",
      "i", "o", "n">>

\* the text of a page, line by line
GRI_PAGES ==
    { <<>>, <<G_HEADER, G_RULE1>>, <<G_TEXT, G_RULE2, G_TEXT>>, <<G_STOP, G_RULE1>>,
      <<L_BLANK, G_BARE>>, <<G_RULE1, G_TEXT>>, <<G_HEADER, G_TEXT, G_STOP>> }

\* documents of up to MaxGriPages pages
GriDocs == UNION {[1..n -> GRI_PAGES] : n \in 1..MaxGriPages}

InitGri ==
    /\ GnIdle
    /\ BulkIdle
    /\ gri_doc \in GriDocs
    /\ gri_pc = "page"
    /\ gri_pi = 0 /\ gri_li = 0
    /\ gri_page_num = START_PAGE
    /\ in_gri = FALSE
    /\ current_rule = <<>>
    /\ gri_buffer = <<>>
    /\ gri_db = <<>>

NextGri ==
    \/ GriEnterPage
    \/ GriEndOfDocument
    \/ GriHeader
    \/ GriStop
    \/ GriOutside
    \/ GriRule
    \/ GriAppend

SpecGri == InitGri /\ [][NextGri]_vars

\* ------------------------------------------------------------------------
\* bulk_orchestrator.py: one bulk run, its pool workers and its requests
\* ------------------------------------------------------------------------
MAX_CONCURRENT == 5

MaxItems == 2

MaxClarify == 1

\* the three counters of run["results_summary"]
SUMMARY_KEYS == {"completed", "exceptions", "errors"}

\* what classify_single_product hands back, or that it raised
RESULT_TYPES == {"answer", "exception", "error", "raised"}

\* the item status and the counter chosen by the branches of _process_item
item_status_of(type) ==
    IF type = "answer" THEN "completed"
    ELSE IF type = "exception" THEN "exception" ELSE "error"

summary_key_of(type) ==
    IF type = "answer" THEN "completed"
    ELSE IF type = "exception" THEN "exceptions" ELSE "errors"

\* workers holding one of the pool's threads
running == {i \in 1..Len(workers) : workers[i].pc \notin {"new", "queued", "done"}}

\* every submitted call of _process_item has returned
futures_done == \A i \in 1..Len(workers) : workers[i].pc \in {"new", "done"}

\* for i in range(len(run["items"])): executor.submit(_process_item, run_id, i)
ProcSubmit ==
    /\ proc.pc = "submit"
    /\ run.status # "cancelled"
    /\ workers' = [workers EXCEPT ![proc.i].pc = "queued"]
    /\ proc' = IF proc.i < Len(run.items) THEN [proc EXCEPT !.i = proc.i + 1]
               ELSE [proc EXCEPT !.pc = "wait"]
    /\ UNCHANGED <<gn_vars, gri_vars, run, clarify, cancel>>

\* if run["status"] == "cancelled": break
ProcBreak ==
    /\ proc.pc = "submit"
    /\ run.status = "cancelled"
    /\ proc' = [proc EXCEPT !.pc = "wait"]
    /\ UNCHANGED <<gn_vars, gri_vars, run, workers, clarify, cancel>>

\* executor.submit raising (no thread can be started): the with block unwinds
ProcSubmitRaises ==
    /\ proc.pc = "submit"
    /\ run.status # "cancelled"
    /\ proc' = [proc EXCEPT !.pc = "unwind"]
    /\ UNCHANGED <<gn_vars, gri_vars, run, workers, clarify, cancel>>

\* for f in futures: f.result(), and the exit of the with block
ProcWait ==
    /\ proc.pc = "wait"
    /\ futures_done
    /\ proc' = [proc EXCEPT !.pc = "check"]
    /\ UNCHANGED <<gn_vars, gri_vars, run, workers, clarify, cancel>>

\* except Exception: run["status"] = "failed", once the pool has shut down
ProcFailed ==
    /\ proc.pc = "unwind"
    /\ futures_done
    /\ run' = [run EXCEPT !.status = "failed"]
    /\ proc' = [proc EXCEPT !.pc = "done"]
    /\ UNCHANGED <<gn_vars, gri_vars, workers, clarify, cancel>>

\* if run["status"] != "cancelled": the read of the status
ProcCheck ==
    /\ proc.pc = "check"
    /\ proc' = [proc EXCEPT !.pc = IF run.status # "cancelled" THEN "mark" ELSE "done"]
    /\ UNCHANGED <<gn_vars, gri_vars, run, workers, clarify, cancel>>

\* run["status"] = "completed"
ProcMark ==
    /\ proc.pc = "mark"
    /\ run' = [run EXCEPT !.status = "completed"]
    /\ proc' = [proc EXCEPT !.pc = "done"]
    /\ UNCHANGED <<gn_vars, gri_vars, workers, clarify, cancel>>

\* _process_item on a pool thread: the cancelled check, then "processing"
WorkerStart(i) ==
    /\ workers[i].pc = "queued"
    /\ Cardinality(running) < MAX_CONCURRENT
    /\ IF run.status = "cancelled"
       THEN /\ workers' = [workers EXCEPT ![i].pc = "done"]
            /\ run' = run
       ELSE /\ workers' = [workers EXCEPT ![i].pc = "classify"]
            /\ run' = [run EXCEPT !.items[i].status = "processing"]
    /\ UNCHANGED <<gn_vars, gri_vars, proc, clarify, cancel>>

\* classify_single_product returns or raises: the item's status is set
WorkerClassify(i) ==
    /\ workers[i].pc = "classify"
    /\ \E type \in RESULT_TYPES :
          /\ run' = [run EXCEPT !.items[i].status = item_status_of(type)]
          /\ workers' = [workers EXCEPT ![i].pc = "read_summary",
                                        ![i].key = summary_key_of(type)]
    /\ UNCHANGED <<gn_vars, gri_vars, proc, clarify, cancel>>

\* run["results_summary"][key] += 1: the read
WorkerReadSummary(i) ==
    /\ workers[i].pc = "read_summary"
    /\ workers' = [workers EXCEPT ![i].pc = "write_summary",
                                  ![i].tmp = run.results_summary[workers[i].key]]
    /\ UNCHANGED <<gn_vars, gri_vars, run, proc, clarify, cancel>>

\* run["results_summary"][key] += 1: the store
WorkerWriteSummary(i) ==
    /\ workers[i].pc = "write_summary"
    /\ run' = [run EXCEPT !.results_summary[workers[i].key] = workers[i].tmp + 1]
    /\ workers' = [workers EXCEPT ![i].pc = "read_progress"]
    /\ UNCHANGED <<gn_vars, gri_vars, proc, clarify, cancel>>

\* run["progress_current"] += 1: the read
WorkerReadProgress(i) ==
    /\ workers[i].pc = "read_progress"
    /\ workers' = [workers EXCEPT ![i].pc = "write_progress",
                                  ![i].tmp = run.progress_current]
    /\ UNCHANGED <<gn_vars, gri_vars, run, proc, clarify, cancel>>

\* run["progress_current"] += 1: the store
WorkerWriteProgress(i) ==
    /\ workers[i].pc = "write_progress"
    /\ run' = [run EXCEPT !.progress_current = workers[i].tmp + 1]
    /\ workers' = [workers EXCEPT ![i].pc = "done"]
    /\ UNCHANGED <<gn_vars, gri_vars, proc, clarify, cancel>>

\* clarify_item up to the first counter: the item is found by id, whatever
\* its status, and re-classified
ClarifyCall ==
    /\ clarify.pc = "idle"
    /\ clarify.calls < MaxClarify
    /\ \E i \in 1..Len(run.items), outcome \in {"answer", "more_info", "raised"} :
          IF outcome = "more_info"
          THEN /\ clarify' = [clarify EXCEPT !.calls = clarify.calls + 1]
               /\ run' = run
          ELSE /\ run' = [run EXCEPT !.items[i].status =
                              IF outcome = "answer" THEN "completed" ELSE "error"]
               /\ clarify' = [clarify EXCEPT
                                 !.pc = "read_exceptions",
                                 !.key = IF outcome = "answer" THEN "completed" ELSE "errors"]
    /\ UNCHANGED <<gn_vars, gri_vars, workers, proc, cancel>>

\* run["results_summary"]["exceptions"] -= 1: the read
ClarifyReadExceptions ==
    /\ clarify.pc = "read_exceptions"
    /\ clarify' = [clarify EXCEPT !.pc = "write_exceptions",
                                  !.tmp = run.results_summary.exceptions]
    /\ UNCHANGED <<gn_vars, gri_vars, run, workers, proc, cancel>>

\* run["results_summary"]["exceptions"] -= 1: the store
ClarifyWriteExceptions ==
    /\ clarify.pc = "write_exceptions"
    /\ run' = [run EXCEPT !.results_summary.exceptions = clarify.tmp - 1]
    /\ clarify' = [clarify EXCEPT !.pc = "read_target"]
    /\ UNCHANGED <<gn_vars, gri_vars, workers, proc, cancel>>

\* run["results_summary"]["completed" or "errors"] += 1: the read
ClarifyReadTarget ==
    /\ clarify.pc = "read_target"
    /\ clarify' = [clarify EXCEPT !.pc = "write_target",
                                  !.tmp = run.results_summary[clarify.key]]
    /\ UNCHANGED <<gn_vars, gri_vars, run, workers, proc, cancel>>

\* run["results_summary"]["completed" or "errors"] += 1: the store, and return
ClarifyWriteTarget ==
    /\ clarify.pc = "write_target"
    /\ run' = [run EXCEPT !.results_summary[clarify.key] = clarify.tmp + 1]
    /\ clarify' = [clarify EXCEPT !.pc = "idle", !.calls = clarify.calls + 1]
    /\ UNCHANGED <<gn_vars, gri_vars, workers, proc, cancel>>

\* cancel_bulk_run: if run["status"] in ("processing", "pending")
CancelCheck ==
    /\ cancel.pc = "idle"
    /\ cancel' = [cancel EXCEPT !.pc = IF run.status \in {"processing", "pending"}
                                       THEN "write" ELSE "returned_false"]
    /\ UNCHANGED <<gn_vars, gri_vars, run, workers, proc, clarify>>

\* run["status"] = "cancelled"; return True
CancelWrite ==
    /\ cancel.pc = "write"
    /\ run' = [run EXCEPT !.status = "cancelled"]
    /\ cancel' = [cancel EXCEPT !.pc = "returned_true"]
    /\ UNCHANGED <<gn_vars, gri_vars, workers, proc, clarify>>

\* create_bulk_run's state with the processing thread just started
InitBulk ==
    /\ GnIdle
    /\ GriIdle
    /\ \E n \in 1..MaxItems :
          /\ run = [status           |-> "processing",
                    progress_current |-> 0,
                    results_summary  |-> [completed |-> 0, exceptions |-> 0, errors |-> 0],
                    items            |-> [i \in 1..n |-> [status |-> "pending"]]]
          /\ workers = [i \in 1..n |-> [pc |-> "new", key |-> "", tmp |-> 0]]
    /\ proc = [pc |-> "submit", i |-> 1]
    /\ clarify = [pc |-> "idle", key |-> "", tmp |-> 0, calls |-> 0]
    /\ cancel = [pc |-> "idle"]

NextBulk ==
    \/ ProcSubmit
    \/ ProcBreak
    \/ ProcSubmitRaises
    \/ ProcWait
    \/ ProcFailed
    \/ ProcCheck
    \/ ProcMark
    \/ \E i \in 1..Len(workers) : WorkerStart(i)
    \/ \E i \in 1..Len(workers) : WorkerClassify(i)
    \/ \E i \in 1..Len(workers) : WorkerReadSummary(i)
    \/ \E i \in 1..Len(workers) : WorkerWriteSummary(i)
    \/ \E i \in 1..Len(workers) : WorkerReadProgress(i)
    \/ \E i \in 1..Len(workers) : WorkerWriteProgress(i)
    \/ ClarifyCall
    \/ ClarifyReadExceptions
    \/ ClarifyWriteExceptions
    \/ ClarifyReadTarget
    \/ ClarifyWriteTarget
    \/ CancelCheck
    \/ CancelWrite

SpecBulk == InitBulk /\ [][NextBulk]_vars

\* ------------------------------------------------------------------------
\* Properties
\* ------------------------------------------------------------------------
CeilDiv(a, b) == (a + b - 1) \div b

RECURSIVE ConcatAll(_)
ConcatAll(seqs) == IF seqs = <<>> THEN <<>> ELSE seqs[1] \o ConcatAll(Tail(seqs))

\* the marker paths of the stored rows, in insert order
MarkersOf(rows) == [k \in 1..Len(rows) |-> rows[k].marker]

\* C1: with the lookup {"4": "Rates of Duty"} the six scenario lines on an
\* ordinary page yield exactly five inserts, in the order 4, 4-a, 4-b, 4-b-i,
\* 4-c; row 4 has no parent, rows 4-a, 4-b and 4-c have row 4 as parent and
\* row 4-b-i has row 4-b as parent.
C1_ScenarioRows ==
    (doc = SCENARIO_DOC /\ pc = "done") =>
        /\ MarkersOf(db) = << <<"4">>, <<"4", "-", "a">>, <<"4", "-", "b">>,
                              <<"4", "-", "b", "-", "i">>, <<"4", "-", "c">> >>
        /\ db[1].parent_id = None
        /\ db[2].parent_id = db[1].id
        /\ db[3].parent_id = db[1].id
        /\ db[5].parent_id = db[1].id
        /\ db[5].parent_id # db[3].id
        /\ db[4].parent_id = db[3].id

C1_Witness == doc = SCENARIO_DOC /\ pc = "done" /\ Len(db) = 5

\* C2: every stored row's parent_id is null or the id returned by an insert
\* issued earlier in the same run.
C2_ParentAssignedEarlier ==
    \A k \in 1..Len(db) :
        \/ db[k].parent_id = None
        \/ \E j \in 1..(k - 1) : db[j].id = db[k].parent_id

C2_Witness == pc = "done" /\ \E k \in 1..Len(db) : db[k].parent_id # None /\ Len(db[k].marker) = 5

\* C3: the level stack is strictly increasing from bottom to top.
C3_LevelsIncrease ==
    \A i \in 1..Len(current_level_stack) : \A j \in 1..Len(current_level_stack) :
        i < j => current_level_stack[i] < current_level_stack[j]

C3_Witness == current_level_stack = <<1, 2>> /\ event = "nested"

\* the line in hand reaches nested-marker detection and matches a pattern
AtNestedCandidate ==
    /\ Proceeds
    /\ ~is_ignored_editorial_line(line)
    /\ matched_gn(prev_line, normalized_line) = <<>>
    /\ in_general_notes /\ current_marker_stack # <<>>
    /\ candidate.level # 0

\* no entry of the current path sits at the given level
NoEntryAtLevel(level) == \A i \in 1..Len(current_level_stack) : current_level_stack[i] # level

FirstSymbol(level) == IF level = 1 THEN <<"a">> ELSE <<"i">>

\* the line in hand is taken as body text: appended, stacks and table untouched
TakenAsBodyText ==
    /\ buffer' = buffer \o <<" ">> \o line
    /\ UNCHANGED <<current_marker_stack, current_level_stack, current_id_stack, db>>

\* C4: when the path has no entry at the candidate's level, a recognized
\* marker opens a node only if it is the level's first symbol ('a', 'i');
\* any other symbol is rejected and the line is taken as body text.
C4_FirstSymbolGate ==
    [][(AtNestedCandidate /\ NoEntryAtLevel(candidate.level)) =>
          IF candidate.marker = FirstSymbol(candidate.level)
          THEN event' \in {"nested", "failed"}
          ELSE event' = "rejected" /\ TakenAsBodyText]_vars

C4_Witness == event = "rejected" /\ current_level_stack = <<>> /\ current_marker_stack # <<>>

\* the roman numeral of a value from 1 to 89, as written in capitals
RECURSIVE ToRoman(_)
ToRoman(n) ==
    IF n >= 50 THEN <<"L">> \o ToRoman(n - 50)
    ELSE IF n >= 40 THEN <<"X", "L">> \o ToRoman(n - 40)
    ELSE IF n >= 10 THEN <<"X">> \o ToRoman(n - 10)
    ELSE IF n >= 9 THEN <<"I", "X">> \o ToRoman(n - 9)
    ELSE IF n >= 5 THEN <<"V">> \o ToRoman(n - 5)
    ELSE IF n >= 4 THEN <<"I", "V">> \o ToRoman(n - 4)
    ELSE IF n >= 1 THEN <<"I">> \o ToRoman(n - 1)
    ELSE <<>>

\* c is the immediate successor of p at the level
ImmediateSuccessorOf(p, c, level) ==
    IF level = 1
    THEN \E i \in 1..25 : p = <<LOWER[i]>> /\ c = <<LOWER[i + 1]>>
    ELSE \E n \in 1..88 : upper(p) = ToRoman(n) /\ upper(c) = ToRoman(n + 1)

\* C5: with an entry p at the candidate's level the validator accepts c
\* exactly when c is the immediate successor of p: the next letter, or the
\* roman numeral of value(p) + 1; skips, repeats, earlier symbols and
\* invalid numerals are rejected.
C5_SuccessorOnly ==
    (pc = "returned" /\ args.fn = "is_immediate_successor" /\ args.prev # <<>>) =>
        (result[1] <=> ImmediateSuccessorOf(args.prev[1], args.next, args.level))

C5_Witness ==
    /\ pc = "returned"
    /\ args.fn = "is_immediate_successor"
    /\ args.prev = << <<"i", "x">> >>
    /\ args.next = <<"x">>
    /\ result = <<TRUE>>

\* C6: within one note (a), (b), (c), ... in alphabetical order are each
\* opened as a letter-level node under the root, the letter i after h
\* and the letter j after it included.
C6_AlphabetRun ==
    (doc = AlphabetDoc(10) /\ pc = "done") =>
        /\ Len(db) = 11
        /\ \A k \in 1..10 :
              /\ db[k + 1].marker = <<"4", "-", LOWER[k]>>
              /\ db[k + 1].parent_id = db[1].id

\* C7: at the end of the document an open node with buffered text is stored
\* by the flusher: a run that ends without a failed insert has handed the
\* whole buffered text to the table under the open node's marker path.
C7_FinalFlush ==
    (pc = "done" /\ current_marker_stack # <<>> /\ strip(buffer) # <<>>) =>
        LET t == strip(buffer)
            n == CeilDiv(Len(t), chunk_size)
        IN  /\ Len(db) >= n
            /\ \A k \in 1..n :
                  LET row  == db[Len(db) - n + k]
                      last == IF k * chunk_size < Len(t) THEN k * chunk_size ELSE Len(t)
                  IN  /\ row.marker = join_dash(current_marker_stack)
                      /\ row.text = strip(SubSeq(t, (k - 1) * chunk_size + 1, last))

C7_Witness ==
    /\ pc = "done"
    /\ event = "end_doc"
    /\ Len(current_marker_stack) = 3
    /\ strip(buffer) # <<>>
    /\ db # <<>>

\* C8: flushing a node whose trimmed text is longer than the threshold T
\* issues exactly ceil(length / T) inserts (4 when the length is 3.5 T); the
\* first carries the node's own parent id, each later one the id assigned
\* to the first, and all carry the same marker path and ref_id.
C8_ChunkRows ==
    [][(pc = "call" /\ args.fn = "flush_current_node" /\ pc' = "returned"
          /\ current_marker_stack # <<>> /\ Len(strip(buffer)) > chunk_size) =>
          LET len    == Len(strip(buffer))
              n      == CeilDiv(len, chunk_size)
              depth  == Len(current_id_stack)
              parent == IF depth >= 2 THEN current_id_stack[depth - 1] ELSE None
              first  == db'[Len(db) + 1]
          IN  /\ Len(db') = Len(db) + n
              /\ (2 * len = 7 * chunk_size => Len(db') = Len(db) + 4)
              /\ SubSeq(db', 1, Len(db)) = db
              /\ first.parent_id = parent
              /\ \A k \in 2..n : db'[Len(db) + k].parent_id = first.id
              /\ \A k \in 1..n :
                    /\ db'[Len(db) + k].marker = join_dash(current_marker_stack)
                    /\ db'[Len(db) + k].ref_id = current_marker_stack[Len(current_marker_stack)]]_vars

C8_Witness ==
    /\ pc = "returned"
    /\ args.fn = "flush_current_node"
    /\ 2 * Len(strip(buffer)) = 7 * chunk_size
    /\ Len(db) >= 5
    /\ db[Len(db)].parent_id = db[Len(db) - 3].id
    /\ db[Len(db) - 3].parent_id = db[1].id

\* C9: the text bodies of the rows written by one flush, concatenated in
\* insert order, reproduce the trimmed buffered text exactly.
C9_ChunkRoundTrip ==
    (pc = "returned" /\ args.fn = "flush_current_node"
       /\ current_marker_stack # <<>> /\ strip(buffer) # <<>>) =>
        LET n == CeilDiv(Len(strip(buffer)), chunk_size)
        IN  ConcatAll([k \in 1..n |-> db[Len(db) - n + k].text]) = strip(buffer)

\* a page strictly inside a configured skip range
InsideSkipRange(p) ==
    \E k \in 1..Len(SKIP_RANGES) : SKIP_RANGES[k][1] < p /\ p < SKIP_RANGES[k][2]

\* C10: a page strictly inside a skip range is passed over whole: none of
\* its lines is read or normalized, and the stacks, the buffer, the recorded
\* page and the table are the same after the page as before it.
C10_MiddlePageUntouched ==
    [][(pc = "page" /\ pi < Len(doc) /\ InsideSkipRange(doc[pi + 1].num)) =>
          /\ pi' = pi + 1
          /\ pc' = "page"
          /\ nread' = nread
          /\ UNCHANGED <<current_marker_stack, current_level_stack, current_id_stack,
                         buffer, current_page, db, prev_line, in_general_notes>>]_vars

C10_Witness ==
    /\ event = "skip_middle"
    /\ pi >= 1
    /\ InsideSkipRange(doc[pi].num)
    /\ doc[pi].blocks # <<>>
    /\ current_marker_stack # <<>>
    /\ buffer # <<>>

\* the rows a flush of the open node appends: its trimmed text cut at the
\* threshold, each piece trimmed, under the node's marker path
StoredAtEnd(rows, markers, text) ==
    LET t == strip(text)
        n == CeilDiv(Len(t), chunk_size)
    IN  /\ Len(rows) >= n
        /\ \A k \in 1..n :
              LET row  == rows[Len(rows) - n + k]
                  last == IF k * chunk_size < Len(t) THEN k * chunk_size ELSE Len(t)
              IN  /\ row.marker = join_dash(markers)
                  /\ row.text = strip(SubSeq(t, (k - 1) * chunk_size + 1, last))

\* the line in hand, on a START page, equals a trigger phrase
AtStartTrigger ==
    /\ pc = "line"
    /\ page_role(page_num) = "START"
    /\ normalize_line(raw_line) \in {START_SKIP_LINE, START_SKIP_LINE1}

\* C11: on a START page a line equal to a trigger phrase first stores the
\* open node when its path and buffer are non-empty (and nothing otherwise),
\* and then no later line of that page, in the same or a later block, is
\* read: the table, the stacks and the buffer stay as they are until a later
\* page is entered.
C11_StartTriggerSkip ==
    [][/\ AtStartTrigger =>
            /\ pc' # "line"
            /\ nread' = nread + 1
            /\ UNCHANGED <<current_marker_stack, current_level_stack, pi>>
            /\ pc' # "failed" =>
                  /\ skip_rest_of_page'
                  /\ IF current_marker_stack # <<>> /\ strip(buffer) # <<>>
                     THEN /\ Len(db') = Len(db) + CeilDiv(Len(strip(buffer)), chunk_size)
                          /\ SubSeq(db', 1, Len(db)) = db
                          /\ StoredAtEnd(db', current_marker_stack, buffer)
                          /\ buffer' = <<>>
                     ELSE db' = db /\ strip(buffer') = <<>>
       /\ (skip_rest_of_page /\ pc # "page") =>
            /\ skip_rest_of_page' /\ pi' = pi
            /\ nread' = nread
            /\ UNCHANGED <<db, buffer, current_marker_stack, current_level_stack,
                           current_id_stack, current_page, in_general_notes>>
       /\ (skip_rest_of_page /\ ~skip_rest_of_page') => pi' = pi + 1]_vars

\* the trigger fired with a node open, and a later block of the page was skipped
C11_Witness ==
    /\ event = "skip_block"
    /\ skip_rest_of_page
    /\ role = "START"
    /\ db # <<>>
    /\ buffer = <<>>
    /\ current_marker_stack # <<>>

\* a line of the page in hand, before the line in hand, begins with
\* "Chapter 98" or "Chapter 99"
AnchorSeenOnPage ==
    \E b \in 1..bi :
        \E k \in 1..(IF b = bi THEN li ELSE Len(cur_blocks[b])) :
            is_resume_marker(normalize_line(cur_blocks[b][k]))

\* C12: on the END page of every skip range, each line before the first line
\* that begins with "Chapter 98" or "Chapter 99" (the section terminator
\* aside) is dropped: it is not appended and opens no node, whatever the END
\* page of an earlier range found.
C12_EndPageDiscards ==
    [][(/\ pc = "line"
        /\ page_role(page_num) = "END"
        /\ ~AnchorSeenOnPage
        /\ ~is_resume_marker(line)
        /\ ~is_terminator) =>
          UNCHANGED <<buffer, current_marker_stack, current_level_stack,
                      current_id_stack, current_page, in_general_notes, db>>]_vars

\* C13: when an insert of a flush raises, the run stops there: the rows
\* stored are those the table had plus the chunks inserted before the one
\* that raised (fewer than the flush needs), the id stack is as it was before
\* the flush, and no step of any kind follows.
C13_InsertFailureStops ==
    [][/\ pc # "failed"
       /\ pc' = "failed" =>
            /\ Len(db') >= Len(db)
            /\ Len(db') < Len(db) + CeilDiv(Len(strip(buffer)), chunk_size)
            /\ SubSeq(db', 1, Len(db)) = db
            /\ UNCHANGED <<current_id_stack, current_marker_stack, current_level_stack,
                           buffer, pi, bi, li>>]_vars

\* the first chunk of a long node was stored and a later insert raised
C13_Witness ==
    /\ pc = "failed"
    /\ db # <<>>
    /\ current_id_stack # <<>>
    /\ current_id_stack[Len(current_id_stack)] = None
    /\ db[Len(db)].marker = join_dash(current_marker_stack)
    /\ Len(strip(buffer)) > chunk_size

\* C14: once the section terminator line has been processed, no later line
\* of the document leads to an insert.
C14_NothingAfterTerminator == [][terminated => db' = db]_vars

\* the candidate of the line in hand is not the next symbol of its level:
\* not the level's first symbol when the path has no entry at that level, not
\* the successor of the path's entry at that level otherwise
FailsSuccession ==
    LET onPath == {i \in 1..Len(current_level_stack) : current_level_stack[i] = candidate.level}
    IN  IF onPath = {}
        THEN candidate.marker # FirstSymbol(candidate.level)
        ELSE LET i == CHOOSE j \in onPath : \A k \in onPath : k <= j
             IN  ~ImmediateSuccessorOf(current_marker_stack[i + 1], candidate.marker,
                                       candidate.level)

\* C15: a line that matches a nested-marker pattern but fails succession
\* validation is appended to the buffer after one space; no row is inserted
\* and the marker, level and id stacks stay as they are.
C15_RejectedCandidateAppended ==
    [][(AtNestedCandidate /\ FailsSuccession) =>
          /\ buffer' = buffer \o <<" ">> \o normalize_line(raw_line)
          /\ db' = db
          /\ UNCHANGED <<current_marker_stack, current_level_stack, current_id_stack>>
          /\ pc' # "failed"]_vars

\* a clause letter out of sequence was appended to an open clause
C15_Witness ==
    /\ event = "rejected"
    /\ current_level_stack # <<>>
    /\ Len(buffer) > Len(line)
    /\ db # <<>>

\* C16: appending a line to an open node leaves the page recorded for the
\* node as it is, so a node is stored under the page of its first line also
\* when its later lines come from following pages.
C16_PageOfFirstLine ==
    [][(/\ pc = "line"
        /\ current_marker_stack # <<>>
        /\ current_marker_stack' = current_marker_stack
        /\ buffer' = buffer \o <<" ">> \o normalize_line(raw_line)) =>
          current_page' = current_page]_vars

\* C17: normalizing a normalized line gives the same line back, for raw
\* lines over zero-width spaces, dash variants, whitespace and letters.
C17_NormalizeIdempotent ==
    (pc = "returned" /\ args.fn = "normalize_line") =>
        normalize_line(result[1]) = result[1]

\* a raw line with a zero-width space and a dash came back as two words
C17_Witness ==
    /\ pc = "returned"
    /\ args.fn = "normalize_line"
    /\ \E i \in 1..Len(args.s) : args.s[i] = ZWSP
    /\ \E i \in 1..Len(args.s) : args.s[i] \in DASHES
    /\ result[1] = <<"a", " ", "a">>

\* the rows read from the general_note table name one identifier twice
DuplicateIdentifier ==
    \E i \in 1..Len(gn_resp) : \E j \in 1..Len(gn_resp) :
        i # j /\ gn_resp[i].general_note_number = gn_resp[j].general_note_number

\* C18: with a root-heading lookup that holds one identifier twice the run
\* fails at startup: no page is entered, no line is read and no row is
\* inserted.
C18_ConfigErrorFailsFast ==
    DuplicateIdentifier => (pi = 0 /\ nread = 0 /\ db = <<>>)

\* C19: for every accepted candidate the stacks are cut at the parent index
\* of the generic backward scan (the last level-stack entry strictly less
\* than the candidate's level, the root when there is none): the entries up
\* to and including that parent are kept and the candidate is pushed on them.
C19_ParentIndexIsGenericScan ==
    [][(AtNestedCandidate /\ ~FailsSuccession /\ pc' # "failed") =>
          LET g == generic_find_accept_parent_index(current_level_stack, candidate.level)
          IN  /\ current_marker_stack' =
                    Append(SubSeq(current_marker_stack, 1, g + 1), candidate.marker)
              /\ current_level_stack' =
                    Append(SubSeq(current_level_stack, 1, g), candidate.level)
              /\ Len(current_id_stack') = g + 2
              /\ current_id_stack'[g + 2] = None
              /\ \A i \in 1..(g + 1) :
                    i < Len(current_id_stack) => current_id_stack'[i] = current_id_stack[i]]_vars

\* a clause letter accepted while a roman item was open: the path was cut
\* back to the root
C19_Witness ==
    /\ event = "nested"
    /\ current_level_stack = <<1>>
    /\ db # <<>>
    /\ Len(db[Len(db)].marker) = 5

\* C20: every stored row whose marker path has two or more symbols has a
\* parent_id, and it is the id of an earlier row stored under the path
\* without its last symbol; a bare marker line "(a)" followed at once by
\* "(i) ..." is no exception.
C20_NestedRowHasParent ==
    \A k \in 1..Len(db) :
        (\E i \in 1..Len(db[k].marker) : db[k].marker[i] = "-") =>
            /\ db[k].parent_id # None
            /\ \E j \in 1..(k - 1) :
                  /\ db[j].id = db[k].parent_id
                  /\ db[j].marker \o <<"-">> \o db[k].ref_id = db[k].marker

\* the line in hand reaches heading recognition and matches a root heading
AtRootHeading ==
    /\ Proceeds
    /\ ~is_ignored_editorial_line(line)
    /\ matched_gn(prev_line, normalized_line) # <<>>

\* C21: a root-heading match first flushes the open node, then leaves the
\* marker stack as [note number], the level stack empty and the id stack as
\* [None], whatever the depth of the path before; and the first row of
\* every flush of a root has no parent.
C21_RootResetsStacks ==
    [][/\ (AtRootHeading /\ pc' # "failed") =>
            /\ IF current_marker_stack # <<>> /\ strip(buffer) # <<>>
               THEN /\ Len(db') = Len(db) + CeilDiv(Len(strip(buffer)), chunk_size)
                    /\ SubSeq(db', 1, Len(db)) = db
                    /\ StoredAtEnd(db', current_marker_stack, buffer)
               ELSE db' = db
            /\ current_marker_stack' = <<matched_gn(prev_line, normalized_line)[1]>>
            /\ current_marker_stack'[1] \in header_keys
            /\ current_level_stack' = <<>>
            /\ current_id_stack' = <<None>>
       /\ (Len(current_marker_stack) = 1 /\ Len(db') > Len(db)) =>
            db'[Len(db) + 1].parent_id = None]_vars

\* a heading met while a roman item under a clause was open
C21_Witness ==
    /\ event = "root"
    /\ current_id_stack = <<None>>
    /\ db # <<>>
    /\ Len(db[Len(db)].marker) = 5

\* the note numbers n for which the line reads n, an optional full stop, a
\* space and a text that starts with the title of note n, letter case aside
HeadingNumbers(l) ==
    {n \in header_keys :
        \E lead \in {n \o <<" ">>, n \o <<".", " ">>} :
            /\ startswith(l, lead)
            /\ Len(l) > Len(lead)
            /\ startswith(lower(from_offset(l, Len(lead))),
                          lower(normalize_line(general_notes_headers(n))))}

\* C22: a line that reaches heading recognition and reads "<n> <title...>"
\* or "<n>. <title...>" for a note number n of the lookup opens note n as the
\* root, whatever the line before it in the block was.
C22_NumberedHeadingOpensRoot ==
    [][(/\ Proceeds
        /\ ~is_ignored_editorial_line(line)
        /\ HeadingNumbers(normalize_line(raw_line)) # {}
        /\ pc' # "failed") =>
          /\ current_marker_stack' \in {<<n>> : n \in HeadingNumbers(normalize_line(raw_line))}
          /\ current_level_stack' = <<>>
          /\ buffer' = normalize_line(raw_line)]_vars

\* C23: a call of the flusher with an empty path, or with a buffer that is
\* empty once trimmed, inserts nothing, returns None and leaves the id stack
\* as it was.
C23_FlushNoop ==
    [][(/\ pc = "call"
        /\ args.fn = "flush_current_node"
        /\ (current_marker_stack = <<>> \/ strip(buffer) = <<>>)) =>
          /\ pc' = "returned"
          /\ result' = <<None>>
          /\ db' = db
          /\ current_id_stack' = current_id_stack]_vars

\* the flusher returned from a node that was stored before and has no new text
C23_Witness ==
    /\ pc = "returned"
    /\ args.fn = "flush_current_node"
    /\ result = <<None>>
    /\ current_marker_stack # <<>>
    /\ buffer = <<>>
    /\ current_id_stack[Len(current_id_stack)] # None

\* C24: at the section terminator with a note open, the buffered text is
\* stored under the node's full marker path, its first row carrying the id
\* of the node's parent, and only then are the stacks and the buffer
\* cleared; no buffered text is lost in the reset.
C24_TerminatorFlushesFirst ==
    [][(/\ pc = "line"
        /\ upper(normalize_line(raw_line)) = SECTION_TERMINATOR
        /\ current_marker_stack # <<>>
        /\ pc' # "failed") =>
          /\ IF strip(buffer) # <<>>
             THEN /\ Len(db') = Len(db) + CeilDiv(Len(strip(buffer)), chunk_size)
                  /\ SubSeq(db', 1, Len(db)) = db
                  /\ StoredAtEnd(db', current_marker_stack, buffer)
                  /\ db'[Len(db) + 1].parent_id =
                        IF Len(current_id_stack) >= 2
                        THEN current_id_stack[Len(current_id_stack) - 1]
                        ELSE None
             ELSE db' = db
          /\ current_marker_stack' = <<>>
          /\ current_level_stack' = <<>>
          /\ current_id_stack' = <<>>
          /\ buffer' = <<>>]_vars

\* the terminator met while a clause was open: the clause was stored under
\* its note
C24_Witness ==
    /\ event = "terminator"
    /\ current_marker_stack = <<>>
    /\ Len(db) >= 2
    /\ Len(db[Len(db)].marker) = 3
    /\ db[Len(db)].parent_id = db[Len(db) - 1].id

\* C25: however the scan of the rules script ends, at the stop header or at
\* the end of the document, the rule whose text is buffered at that moment
\* has been stored.
C25_LastRulePersisted ==
    (gri_pc \in {"done", "exit"} /\ current_rule # <<>> /\ strip(gri_buffer) # <<>>) =>
        \E k \in 1..Len(gri_db) :
            gri_db[k].ref_id = current_rule /\ gri_db[k].text = strip(gri_buffer)

\* C26: between any two lines either no note is open and the marker, level
\* and id stacks are empty, or a note is open, the marker and id stacks have
\* the same length n >= 1 and the level stack has length n - 1;
\* in_general_notes is true exactly when the marker stack is non-empty.
C26_StackShape ==
    pc \in {"page", "block", "line", "done", "failed"} =>
        /\ in_general_notes <=> (current_marker_stack # <<>>)
        /\ IF current_marker_stack = <<>>
           THEN current_level_stack = <<>> /\ current_id_stack = <<>>
           ELSE /\ Len(current_id_stack) = Len(current_marker_stack)
                /\ Len(current_level_stack) = Len(current_marker_stack) - 1

\* the stacks were cleared by the terminator after a roman item had been open
C26_Witness ==
    /\ event = "terminator"
    /\ ~in_general_notes
    /\ current_marker_stack = <<>>
    /\ db # <<>>
    /\ pc = "line"

\* the characters of a text other than the joining spaces
Squash(s) == SelectSeq(s, LAMBDA c : c # " ")

\* what has been stored, in insert order, followed by what is still buffered
StoredThenBuffered ==
    Squash(ConcatAll([k \in 1..Len(db) |-> db[k].text]))
        \o (IF pc = "done" THEN <<>> ELSE Squash(buffer))

\* what the step taken ingests of the line it reads
IngestedByStep ==
    IF event' \in {"root", "append", "rejected"} THEN line
    ELSE IF event' = "nested" THEN from_offset(line, candidate.end)
    ELSE <<>>

\* C27: provided no insert fails, every line ingested while a note is open
\* ends up in the text of exactly one persisted node, without its marker when
\* it opened a nested node: each step adds exactly the ingested line to what
\* is stored or buffered, and at the end of the document nothing is left
\* buffered.
C27_IngestedOnce ==
    [][pc' # "failed"
          => StoredThenBuffered' =
                StoredThenBuffered \o (IF pc = "line" THEN Squash(IngestedByStep) ELSE <<>>)]_vars

\* the closing flush stored the last of three or more rows
C27_Witness ==
    /\ pc = "done"
    /\ event = "end_doc"
    /\ Len(db) >= 3
    /\ buffer # <<>>
    /\ db[Len(db)].text = strip(buffer)

\* the raw line in hand, on a START page, is one of the two configured phrases
AtRawTriggerPhrase ==
    /\ pc = "line"
    /\ page_role(page_num) = "START"
    /\ raw_line \in {START_SKIP_LINE, START_SKIP_LINE1}

\* C28: on a START page each of the two configured trigger phrases, met as a
\* whole raw line, fires the partial skip: the rest of the page is discarded
\* for 'Product-specific rules' as for 'Change in tariff classification rules'
\* (an insert that raises during the flush aside).
C28_BothPhrasesTrigger ==
    [][AtRawTriggerPhrase /\ pc' # "failed"
          => event' = "start_trigger" /\ skip_rest_of_page']_vars

\* the items of the run with one of the given statuses
ItemsWithStatus(S) == {i \in 1..Len(run.items) : run.items[i].status \in S}

\* no worker and no clarify call is in the middle of an update
NoUpdateInProgress ==
    /\ \A i \in 1..Len(workers) : workers[i].pc \in {"new", "queued", "classify", "done"}
    /\ clarify.pc = "idle"

\* C29: whenever no worker and no clarify call is in the middle of an update,
\* the three counters of results_summary equal the numbers of items with
\* status completed, exception and error, and progress_current equals the
\* number of items that are no longer pending or processing.
C29_CountersMatchItems ==
    NoUpdateInProgress =>
        /\ run.results_summary.completed = Cardinality(ItemsWithStatus({"completed"}))
        /\ run.results_summary.exceptions = Cardinality(ItemsWithStatus({"exception"}))
        /\ run.results_summary.errors = Cardinality(ItemsWithStatus({"error"}))
        /\ run.progress_current =
              Cardinality(ItemsWithStatus({"completed", "exception", "error"}))

\* C30: once cancel_bulk_run has returned True the run's status is
\* 'cancelled' in every later state.
C30_CancelledStays ==
    cancel.pc = "returned_true" => run.status = "cancelled"

====
